---- MODULE Spec2Model ----
(***************************************************************************)
(* Model of the VINEGAR assistant backend core:                            *)
(*   - MultiLLMClient.chat_completion  (utils/llm_client.py)               *)
(*   - BaseAgent.call_llm and the three agents' process (agents/*.py)      *)
(*   - Orchestrator.process_request and its helpers (agents/orchestrator)  *)
(*   - VectorStore, FirestoreService's knowledge collection and RAGService *)
(*     (utils/vectors.py, services/firestore.py, services/rag.py)          *)
(*   - the session history kept by the /chat handler (server.py) with      *)
(*     FirestoreService.save_session / get_session                         *)
(* Python strings are TLA+ strings; str.lower / str.upper / `in` are       *)
(* computed character by character.  Confidences are in hundredths         *)
(* (0.9 is 90).  A Python value that is either a str, None or a raised     *)
(* exception is a record tagged by the field kind.                         *)
(***************************************************************************)
EXTENDS Integers, Sequences, FiniteSets, TLC

VARIABLES
    configured,   \* MultiLLMClient: the backends whose client handle is not None
    lastCall,     \* observation of the latest stand-alone chat_completion call
    pc,           \* position of Orchestrator.process_request
    request,      \* the AgentRequest being processed (its input text)
    selected,     \* selected_agents: list of AgentType
    classification, \* _ai_agent_selection: what its chat_completion call returned or raised
    agentResp,    \* per agent: result slot of its process() coroutine
    finished,     \* the gather's tasks in the order they finished
    response,     \* the AgentResponse returned by process_request
    synthesis,    \* _synthesize_responses: its responses argument and what its call returned
    directOut,    \* _direct_response: what its chat_completion call returned or raised
    llmCalls,     \* per purpose: number of chat_completion calls issued in this request
    llmExc,       \* per purpose: how many of those calls raised
    invocations,  \* per agent: number of process() invocations in this request
    sentiment,    \* observation of the latest stand-alone _analyze_sentiment call
    similarity,   \* observation of the latest stand-alone cosine_similarity call
    lastMessages, \* observation of the latest message list built for the completion client
    session,      \* the stored session document: its messages, or none
    turns,        \* per /chat turn: its position, the history it loaded and its reply
    extracted,    \* observation of the latest stand-alone ExecutiveAgent.process call
    store,        \* the knowledge collection: the saved nodes, in the order a query streams them
    cache,        \* VectorStore.embeddings_cache: text -> embedding
    lastContext,  \* observation of get_context_for_query when it is the latest call
    lastAdd,      \* observation of add_knowledge when it is the latest call
    embedTasks    \* per calling coroutine: position and outcome of its get_embedding call

vars == <<configured, lastCall, pc, request, selected, classification, agentResp,
          finished, response, synthesis, directOut, llmCalls, llmExc, invocations,
          sentiment, similarity, lastMessages, session, turns, extracted,
          store, cache, lastContext, lastAdd, embedTasks>>

orchVars == <<pc, request, selected, classification, agentResp, finished, response,
              synthesis, directOut, llmCalls, llmExc, invocations>>

ragVars == <<store, cache, lastContext, lastAdd, embedTasks>>

sideVars == <<sentiment, similarity, lastMessages, session, turns, extracted>>

-----------------------------------------------------------------------------
(* Bounds *)

\* longest utterance, in words of Vocabulary
MaxWords == 2

\* largest number of nodes in the knowledge collection
MaxNodes == 6

-----------------------------------------------------------------------------
(* Python values *)

Text(s) == [kind |-> "text", text |-> s]
NoneVal == [kind |-> "none"]
Exc(m)  == [kind |-> "exc", msg |-> m]

\* a backend call that raised (timeout, non-2xx, malformed payload)
Failed  == [kind |-> "fail"]

\* no call was made, so there is neither a value nor an exception
NoResult == [kind |-> "absent"]

-----------------------------------------------------------------------------
(* str operations *)

UpperAlphabet == "ABCDEFGHIJKLMNOPQRSTUVWXYZ"
LowerAlphabet == "abcdefghijklmnopqrstuvwxyz"

CharAt(s, i) == SubSeq(s, i, i)

\* letter to letter, tabulated once
LowerOf ==
    [c \in {CharAt(UpperAlphabet, i) : i \in 1..26} |->
        CharAt(LowerAlphabet, CHOOSE i \in 1..26 : CharAt(UpperAlphabet, i) = c)] @@ <<>>

UpperOf ==
    [c \in {CharAt(LowerAlphabet, i) : i \in 1..26} |->
        CharAt(UpperAlphabet, CHOOSE i \in 1..26 : CharAt(LowerAlphabet, i) = c)] @@ <<>>

RECURSIVE MapFrom(_, _, _)
\* s from position i on, every character in the table's domain replaced by
\* its image
MapFrom(s, i, table) ==
    IF i > Len(s) THEN ""
    ELSE (IF CharAt(s, i) \in DOMAIN table THEN table[CharAt(s, i)] ELSE CharAt(s, i))
         \o MapFrom(s, i + 1, table)

\* str.lower()
Lower(s) == MapFrom(s, 1, LowerOf)

\* str.upper()
Upper(s) == MapFrom(s, 1, UpperOf)

\* k in s
Contains(s, k) ==
    \E i \in 1..(Len(s) - Len(k) + 1) : SubSeq(s, i, i + Len(k) - 1) = k

\* any(k in s for k in ks)
ContainsAny(s, ks) == \E k \in ks : Contains(s, k)

-----------------------------------------------------------------------------
(* MultiLLMClient *)

\* the providers, in the order chat_completion tries them
Backends == {"euron", "deepseek", "gemini", "openai"}

\* "Priority: Euron -> DeepSeek -> Gemini -> OpenAI"
BackendOrder == <<"euron", "deepseek", "gemini", "openai">>

\* position of backend b in the priority order
Priority(b) == CHOOSE i \in 1..Len(BackendOrder) : BackendOrder[i] = b

\* texts a completion backend may return
Replies ==
    { "",
      "Emotional, Prioritization: rest, research, remind, connect",
      "EXECUTIVE emotional PRIORITIZATION: draft, schedule" }

\* What one backend call can do: raise, or return its content.  The
\* OpenAI-compatible clients return message.content, which may be None;
\* Gemini's response.text is a str or raises.
BackendOutcomes(b) ==
    {Failed} \cup {Text(r) : r \in Replies} \cup (IF b = "gemini" THEN {} ELSE {NoneVal})

OutcomeVectors ==
    {out \in [Backends -> {Failed, NoneVal} \cup {Text(r) : r \in Replies}] :
        \A b \in Backends : out[b] \in BackendOutcomes(b)}

AllFailedMsg == "All LLM providers failed"
NoProvidersMsg == "No LLM providers configured"

\* chat_completion has not returned or raised yet, nothing was invoked
CallStart == [invoked |-> <<>>, done |-> FALSE, result |-> NoneVal]

\* One `if self.<b>_client: try: ... return result / except: ...` block.
\* st is the call so far; a block after a return or raise is not executed.
\* variant: the block does not return on success, later blocks still run
TryBackendKeepGoing(st, b, conf, out) ==
    IF b \notin conf THEN st
    ELSE IF out[b] = Failed
         THEN [st EXCEPT !.invoked = Append(@, b)]
         ELSE [invoked |-> Append(st.invoked, b), done |-> TRUE, result |-> out[b]]

\* variant: the block does not test the client handle
TryBackendUnconfigured(st, b, conf, out) ==
    IF st.done THEN st
    ELSE IF out[b] = Failed
         THEN [st EXCEPT !.invoked = Append(@, b)]
         ELSE [invoked |-> Append(st.invoked, b), done |-> TRUE, result |-> out[b]]

TryBackend(st, b, conf, out) ==
    IF st.done \/ b \notin conf THEN st
    ELSE IF out[b] = Failed
         THEN [st EXCEPT !.invoked = Append(@, b)]
         ELSE [invoked |-> Append(st.invoked, b), done |-> TRUE, result |-> out[b]]

\* The last block: a failure of the OpenAI call raises instead of falling through.
TryOpenAI(st, conf, out) ==
    IF st.done \/ "openai" \notin conf THEN st
    ELSE IF out["openai"] = Failed
         THEN [invoked |-> Append(st.invoked, "openai"), done |-> TRUE,
               result |-> Exc(AllFailedMsg)]
         ELSE [invoked |-> Append(st.invoked, "openai"), done |-> TRUE,
               result |-> out["openai"]]

\* variant: falling off the last block returns an empty text instead of raising
ChatCompletionSwallow(conf, out) ==
    LET e == TryBackend(CallStart, "euron", conf, out)
        d == TryBackend(e, "deepseek", conf, out)
        g == TryBackend(d, "gemini", conf, out)
        o == TryOpenAI(g, conf, out)
    IN  IF o.done THEN o
        ELSE [o EXCEPT !.done = TRUE, !.result = Text("")]

\* chat_completion: the call's trace, invoked backends in order and the
\* value returned (kind text or none) or the exception raised (kind exc)
ChatCompletion(conf, out) ==
    LET e == TryBackend(CallStart, "euron", conf, out)
        d == TryBackend(e, "deepseek", conf, out)
        g == TryBackend(d, "gemini", conf, out)
        o == TryOpenAI(g, conf, out)
    IN  IF o.done THEN o
        ELSE [o EXCEPT !.done = TRUE, !.result = Exc(NoProvidersMsg)]

\* every value chat_completion can return or raise, per set of configured
\* backends (tabulated once)
LLMResultsOf ==
    [conf \in SUBSET Backends |->
        {ChatCompletion(conf, out).result : out \in OutcomeVectors}] @@ <<>>

NoCall == [made |-> FALSE]

\* A caller invokes llm_client.chat_completion; the backends answer as in out.
ChatCompletionCall ==
    /\ pc = "idle"
    /\ \E out \in OutcomeVectors :
          lastCall' = [made |-> TRUE, out |-> out, trace |-> ChatCompletion(configured, out)]
    /\ UNCHANGED <<configured, orchVars, sideVars, ragVars>>

\* a chat message
Message(role, content) == [role |-> role, content |-> content]

\* the arguments chat_completion is called with
MessageLists ==
    { <<Message("user", "hi")>>,
      <<Message("user", "hi"), Message("assistant", "yo"), Message("user", "ok")>> }
SystemPrompts == {NoneVal, Text("sys")}
MaxTokensValues == {100, 2000}
Temperatures == {30, 70}

\* `if system_prompt:` prepends the system message
WithSystemPrompt(messages, system_prompt) ==
    IF system_prompt.kind = "text" /\ system_prompt.text # ""
    THEN <<Message("system", system_prompt.text)>> \o messages
    ELSE messages

RECURSIVE FormatForGemini(_)
\* _format_for_gemini: one "Role: content" paragraph per message
FormatForGemini(messages) ==
    IF messages = <<>> THEN ""
    ELSE LET msg == Head(messages)
             line == CASE msg.role = "system" -> "System: " \o msg.content
                       [] msg.role = "user" -> "User: " \o msg.content
                       [] msg.role = "assistant" -> "Assistant: " \o msg.content
         IN  IF Len(messages) = 1 THEN line
             ELSE line \o "\n\n" \o FormatForGemini(Tail(messages))

\* the model name each OpenAI-compatible backend is called with
ModelOf(b) ==
    CASE b = "euron" -> "gpt-4.1-nano"
      [] b = "deepseek" -> "deepseek-chat"
      [] b = "openai" -> "gpt-4o-mini"

\* what the invocation of backend b carries: chat.completions.create's
\* keyword arguments, or the one prompt string given to generate_content
BackendRequest(b, messages, max_tokens, temperature) ==
    IF b = "gemini"
    THEN [backend |-> b, prompt |-> FormatForGemini(messages)]
    ELSE [backend |-> b, model |-> ModelOf(b), messages |-> messages,
          max_tokens |-> max_tokens, temperature |-> temperature]

\* the outcomes followed when the arguments of the call are observed: each
\* backend raises or returns a text
PlainOutcomeVectors == [Backends -> {Failed, Text("ok")}]

\* A caller invokes llm_client.chat_completion with its arguments; what each
\* invoked backend was sent is observed.
ChatCompletionRequest ==
    /\ pc = "idle"
    /\ \E out \in PlainOutcomeVectors, messages \in MessageLists,
          system_prompt \in SystemPrompts, max_tokens \in MaxTokensValues,
          temperature \in Temperatures :
          LET trace == ChatCompletion(configured, out)
              sent == WithSystemPrompt(messages, system_prompt)
          IN  lastCall' = [made |-> TRUE, out |-> out, trace |-> trace,
                           messages |-> messages, system_prompt |-> system_prompt,
                           max_tokens |-> max_tokens, temperature |-> temperature,
                           requests |-> [i \in 1..Len(trace.invoked) |->
                                            BackendRequest(trace.invoked[i], sent,
                                                           max_tokens, temperature)]]
    /\ UNCHANGED <<configured, orchVars, sideVars, ragVars>>

-----------------------------------------------------------------------------
(* models/types.py *)

EXECUTIVE == "executive"
EMOTIONAL == "emotional"
PRIORITIZATION == "prioritization"
ORCHESTRATOR == "orchestrator"

\* the three agents in agent_map
Agents == {EXECUTIVE, EMOTIONAL, PRIORITIZATION}

\* variant: an Action is built as already being executed
ActionExecuting(type, detail) == [type |-> type, status |-> "executing", details |-> detail]

Action(type, detail) == [type |-> type, status |-> "pending", details |-> detail]

\* AgentResponse (id, should_speak and reasoning are not modelled)
AgentResponse(agentType, content, actions, confidence) ==
    [kind |-> "response", agent_type |-> agentType, content |-> content,
     actions |-> actions, confidence |-> confidence]

NoResponse == [kind |-> "absent"]

-----------------------------------------------------------------------------
(* agents/base.py *)

\* call_llm (and its alias call_claude): res is what chat_completion returned
\* or raised; an exception becomes the text of an error message.
CallLLM(res) ==
    IF res.kind = "exc" THEN Text("I encountered an error: " \o res.msg) ELSE res

-----------------------------------------------------------------------------
(* agents/executive.py *)

ExecutiveConfidence == 90
ExecutiveFallbackConfidence == 30
ExecutiveFallbackText ==
    "I encountered an issue processing your executive request. Let me get that sorted."

\* variant: the text is searched without lower()
ExtractActionsCaseSensitive(text) ==
    (IF Contains(text, "send email") \/ Contains(text, "draft")
     THEN <<Action("email", "draft_email")>> ELSE <<>>)
    \o (IF Contains(text, "schedule") \/ Contains(text, "calendar")
        THEN <<Action("calendar", "schedule_event")>> ELSE <<>>)
    \o (IF Contains(text, "remind")
        THEN <<Action("reminder", "set_reminder")>> ELSE <<>>)

\* _extract_actions
ExtractActions(text) ==
    LET response_lower == Lower(text)
    IN  (IF Contains(response_lower, "send email") \/ Contains(response_lower, "draft")
         THEN <<Action("email", "draft_email")>> ELSE <<>>)
        \o (IF Contains(response_lower, "schedule") \/ Contains(response_lower, "calendar")
            THEN <<Action("calendar", "schedule_event")>> ELSE <<>>)
        \o (IF Contains(response_lower, "remind")
            THEN <<Action("reminder", "set_reminder")>> ELSE <<>>)

\* the except branch of ExecutiveAgent.process
ExecutiveFallback ==
    AgentResponse(EXECUTIVE, ExecutiveFallbackText, <<>>, ExecutiveFallbackConfidence)

\* ExecutiveAgent.process; res is the outcome of its chat_completion call.
\* A None text makes _extract_actions raise AttributeError inside the try.
ExecutiveProcess(input, res) ==
    LET response_text == CallLLM(res)
    IN  IF response_text.kind # "text" THEN ExecutiveFallback
        ELSE AgentResponse(EXECUTIVE, response_text.text,
                           ExtractActions(response_text.text), ExecutiveConfidence)

-----------------------------------------------------------------------------
(* agents/emotional.py *)

EmotionalConfidence == 85
EmotionalFallbackConfidence == 50
EmotionalFallbackText == "I'm here for you. How can I support you right now?"

FrustratedWords == {"frustrated", "annoyed", "stuck", "damn", "argh", "ugh"}
SadWords == {"sad", "down", "depressed", "lonely", "tired"}
StressedWords == {"stressed", "overwhelmed", "anxious", "worried", "deadline"}
PositiveWords == {"great", "awesome", "excited", "happy", "amazing", "love"}

\* variant: the positive rule is tried before the stress rule
AnalyzeSentimentPositiveFirst(text) ==
    LET text_lower == Lower(text)
    IN  IF ContainsAny(text_lower, FrustratedWords) THEN "frustrated"
        ELSE IF ContainsAny(text_lower, SadWords) THEN "sad"
        ELSE IF ContainsAny(text_lower, PositiveWords)
             THEN (IF Contains(text_lower, "excited") THEN "excited" ELSE "happy")
        ELSE IF ContainsAny(text_lower, StressedWords) THEN "stressed"
        ELSE "neutral"

\* _analyze_sentiment
AnalyzeSentiment(text) ==
    LET text_lower == Lower(text)
    IN  IF ContainsAny(text_lower, FrustratedWords) THEN "frustrated"
        ELSE IF ContainsAny(text_lower, SadWords) THEN "sad"
        ELSE IF ContainsAny(text_lower, StressedWords) THEN "stressed"
        ELSE IF ContainsAny(text_lower, PositiveWords)
             THEN (IF Contains(text_lower, "excited") THEN "excited" ELSE "happy")
        ELSE "neutral"

\* words the texts given to _analyze_sentiment are made of
SentimentWords ==
    {"stuck", "Tired", "stressed", "deadline", "happy", "excited", "great", "download",
     "fine", "but"}

\* _suggest_actions
SuggestActions(mood, text) ==
    LET response_lower == Lower(text)
    IN  (IF /\ mood \in {"stressed", "sad", "frustrated"}
            /\ (Contains(response_lower, "reach out") \/ Contains(response_lower, "connect"))
         THEN <<Action("contact", "suggest_contact")>> ELSE <<>>)
        \o (IF Contains(response_lower, "break") \/ Contains(response_lower, "rest")
            THEN <<Action("reminder", "self_care_reminder")>> ELSE <<>>)

\* the except branch of EmotionalAgent.process
EmotionalFallback ==
    AgentResponse(EMOTIONAL, EmotionalFallbackText, <<>>, EmotionalFallbackConfidence)

\* variant: process without its try/except, the error reaches the caller
EmotionalProcessNoCatch(input, res) ==
    LET detected_mood == AnalyzeSentiment(input)
        response_text == CallLLM(res)
    IN  IF response_text.kind # "text" THEN Exc("AttributeError")
        ELSE AgentResponse(EMOTIONAL, response_text.text,
                           SuggestActions(detected_mood, response_text.text),
                           EmotionalConfidence)

\* EmotionalAgent.process; a None text makes _suggest_actions raise inside the try
EmotionalProcess(input, res) ==
    LET detected_mood == AnalyzeSentiment(input)
        response_text == CallLLM(res)
    IN  IF response_text.kind # "text" THEN EmotionalFallback
        ELSE AgentResponse(EMOTIONAL, response_text.text,
                           SuggestActions(detected_mood, response_text.text),
                           EmotionalConfidence)

-----------------------------------------------------------------------------
(* agents/prioritization.py *)

PrioritizationConfidence == 88
PrioritizationFallbackConfidence == 40
PrioritizationFallbackText == "Let me help you think through the priorities here."

\* _extract_priority_actions
ExtractPriorityActions(text) ==
    LET response_lower == Lower(text)
    IN  (IF Contains(response_lower, "research") \/ Contains(response_lower, "look into")
         THEN <<Action("research", "strategic_research")>> ELSE <<>>)
        \o (IF Contains(response_lower, "deadline") \/ Contains(response_lower, "due")
            THEN <<Action("reminder", "deadline_warning")>> ELSE <<>>)
        \o (IF Contains(response_lower, "block time") \/ Contains(response_lower, "schedule")
            THEN <<Action("calendar", "time_blocking")>> ELSE <<>>)

\* the except branch of PrioritizationAgent.process
PrioritizationFallback ==
    AgentResponse(PRIORITIZATION, PrioritizationFallbackText, <<>>,
                  PrioritizationFallbackConfidence)

\* PrioritizationAgent.process
PrioritizationProcess(input, res) ==
    LET response_text == CallLLM(res)
    IN  IF response_text.kind # "text" THEN PrioritizationFallback
        ELSE AgentResponse(PRIORITIZATION, response_text.text,
                           ExtractPriorityActions(response_text.text),
                           PrioritizationConfidence)

\* agent_map[agent_type].process(request)
Process(a, input, res) ==
    CASE a = EXECUTIVE -> ExecutiveProcess(input, res)
      [] a = EMOTIONAL -> EmotionalProcess(input, res)
      [] a = PRIORITIZATION -> PrioritizationProcess(input, res)

-----------------------------------------------------------------------------
(* agents/orchestrator.py *)

executive_keywords ==
    {"email", "calendar", "schedule", "meeting", "appointment",
     "remind", "inbox", "send", "draft", "reschedule"}

emotional_keywords ==
    {"feel", "stressed", "frustrated", "sad", "happy", "excited",
     "tired", "overwhelmed", "motivation", "support", "help me cope"}

priority_keywords ==
    {"priority", "prioritize", "what should", "which", "focus",
     "important", "urgent", "deadline", "goal", "strategy", "plan"}

SynthesisConfidence == 90
DirectConfidence == 75
LastResortConfidence == 30
LastResortText == "I'm experiencing some technical difficulties. Give me a moment."

\* variant: the three tests chained with elif, at most one variant selected
KeywordSelectionExclusive(input) ==
    LET input_lower == Lower(input)
    IN  IF ContainsAny(input_lower, executive_keywords) THEN <<EXECUTIVE>>
        ELSE IF ContainsAny(input_lower, emotional_keywords) THEN <<EMOTIONAL>>
        ELSE IF ContainsAny(input_lower, priority_keywords) THEN <<PRIORITIZATION>>
        ELSE <<>>

\* the keyword part of _select_agents: three independent ifs, each appending
KeywordSelection(input) ==
    LET input_lower == Lower(input)
    IN  (IF ContainsAny(input_lower, executive_keywords) THEN <<EXECUTIVE>> ELSE <<>>)
        \o (IF ContainsAny(input_lower, emotional_keywords) THEN <<EMOTIONAL>> ELSE <<>>)
        \o (IF ContainsAny(input_lower, priority_keywords) THEN <<PRIORITIZATION>> ELSE <<>>)

\* variant: the reply is searched without upper()
AiAgentSelectionCaseSensitive(res) ==
    IF res.kind # "text" THEN <<EXECUTIVE>>
    ELSE LET agent_text == res.text
             sel == (IF Contains(agent_text, "EXECUTIVE") THEN <<EXECUTIVE>> ELSE <<>>)
                    \o (IF Contains(agent_text, "EMOTIONAL") THEN <<EMOTIONAL>> ELSE <<>>)
                    \o (IF Contains(agent_text, "PRIORITIZATION")
                        THEN <<PRIORITIZATION>> ELSE <<>>)
         IN  IF sel # <<>> THEN sel ELSE <<EXECUTIVE>>

\* variant: the parsed selection is returned as it is, without the default
AiAgentSelectionNoDefault(res) ==
    IF res.kind # "text" THEN <<EXECUTIVE>>
    ELSE LET agent_text == Upper(res.text)
         IN  (IF Contains(agent_text, "EXECUTIVE") THEN <<EXECUTIVE>> ELSE <<>>)
             \o (IF Contains(agent_text, "EMOTIONAL") THEN <<EMOTIONAL>> ELSE <<>>)
             \o (IF Contains(agent_text, "PRIORITIZATION")
                 THEN <<PRIORITIZATION>> ELSE <<>>)

\* _ai_agent_selection; res is the outcome of the classification call.
\* A raised exception, and None.upper(), end in the except branch.
AiAgentSelection(res) ==
    IF res.kind # "text" THEN <<EXECUTIVE>>
    ELSE LET agent_text == Upper(res.text)
             sel == (IF Contains(agent_text, "EXECUTIVE") THEN <<EXECUTIVE>> ELSE <<>>)
                    \o (IF Contains(agent_text, "EMOTIONAL") THEN <<EMOTIONAL>> ELSE <<>>)
                    \o (IF Contains(agent_text, "PRIORITIZATION")
                        THEN <<PRIORITIZATION>> ELSE <<>>)
         IN  IF sel # <<>> THEN sel ELSE <<EXECUTIVE>>

\* variant: all_actions is assigned, not extended, in the loop
ConcatActionsAssigned(responses) ==
    IF responses = <<>> THEN <<>> ELSE responses[Len(responses)].actions

RECURSIVE ConcatActions(_)
\* all_actions after the loop of _synthesize_responses
ConcatActions(responses) ==
    IF responses = <<>> THEN <<>>
    ELSE Head(responses).actions \o ConcatActions(Tail(responses))

\* variant: _synthesize_responses without its try/except
SynthesizeResponsesNoCatch(responses, res) ==
    IF res.kind = "exc" THEN res
    ELSE IF res.kind # "text" THEN Exc("ValidationError")
    ELSE AgentResponse(ORCHESTRATOR, res.text, ConcatActions(responses), SynthesisConfidence)

\* _synthesize_responses; res is the outcome of the synthesis call.  A None
\* text fails AgentResponse validation inside the try.
SynthesizeResponses(responses, res) ==
    IF res.kind # "text" THEN responses[1]
    ELSE AgentResponse(ORCHESTRATOR, res.text, ConcatActions(responses), SynthesisConfidence)

\* the except branch of _direct_response
LastResort == AgentResponse(ORCHESTRATOR, LastResortText, <<>>, LastResortConfidence)

\* variant: the except branch answers with an error text at the normal confidence
DirectResponseNoLastResort(res) ==
    IF res.kind = "text" THEN AgentResponse(ORCHESTRATOR, res.text, <<>>, DirectConfidence)
    ELSE AgentResponse(ORCHESTRATOR, "I encountered an error", <<>>, DirectConfidence)

\* _direct_response; res is the outcome of its completion call
DirectResponseOf(res) ==
    IF res.kind # "text" THEN LastResort
    ELSE AgentResponse(ORCHESTRATOR, res.text, <<>>, DirectConfidence)

\* variant: the results are collected in the order the tasks finished
GatherResultsAsCompleted(agent_types, slots) ==
    [i \in 1..Len(finished) |-> slots[finished[i]]]

\* responses of asyncio.gather, in task order
RECURSIVE GatherResults(_, _)
GatherResults(agent_types, slots) ==
    IF agent_types = <<>> THEN <<>>
    ELSE <<slots[Head(agent_types)]>> \o GatherResults(Tail(agent_types), slots)

\* variant: one exception among the results discards them all
ValidResponsesAllOrNothing(responses) ==
    IF \A i \in 1..Len(responses) : responses[i].kind = "response" THEN responses ELSE <<>>

\* valid_responses = [r for r in responses if isinstance(r, AgentResponse)]
ValidResponses(responses) ==
    SelectSeq(responses, LAMBDA r : r.kind = "response")

Purposes == {"classify", "agent", "synthesize", "direct"}
ZeroCalls == [p \in Purposes |-> 0]
ZeroInvocations == [a \in Agents |-> 0]
NoSlots == [a \in Agents |-> NoResponse]

\* _synthesize_responses has not been called
NoSynthesis == [made |-> FALSE]

\* words utterances are made of
Vocabulary == {"Calendar", "sadly", "Focus", "hello"}

RECURSIVE JoinWords(_)
JoinWords(ws) ==
    IF ws = <<>> THEN ""
    ELSE IF Len(ws) = 1 THEN ws[1]
    ELSE ws[1] \o " " \o JoinWords(Tail(ws))

\* the utterance of test_orchestrator_prioritization_routing
FocusUtterance == "What should I focus on today?"

Utterances ==
    {JoinWords(ws) : ws \in UNION {[1..n -> Vocabulary] : n \in 0..MaxWords}}
        \cup {FocusUtterance}

\* words the completion texts given to ExecutiveAgent.process are made of
ActionWords ==
    {"Send", "email", "DRAFT", "schedule", "Calendar", "remind", "Reminder", "sent",
     "emails", "hello"}

\* what ExecutiveAgent.process's completion call returns or raises
GeneratedOutcomes ==
    {Text(JoinWords(ws)) : ws \in UNION {[1..n -> ActionWords] : n \in 0..MaxWords}}
        \cup {NoneVal, Exc("All LLM providers failed")}

\* ExecutiveAgent.process tabulated once over these outcomes
ExecutiveProcessOf == [res \in GeneratedOutcomes |-> ExecutiveProcess("", res)] @@ <<>>

\* ExecutiveAgent.process has not been called
NoExtraction == [made |-> FALSE, out |-> NoneVal, response |-> ExecutiveFallback]

\* one ExecutiveAgent.process call
ExecutiveProcessCall ==
    /\ \E res \in GeneratedOutcomes :
          extracted' = [made |-> TRUE, out |-> res, response |-> ExecutiveProcessOf[res]]
    /\ UNCHANGED <<configured, lastCall, orchVars, ragVars, sentiment, similarity,
                   lastMessages, session, turns>>

\* the texts _analyze_sentiment is called with
SentimentTexts ==
    {JoinWords(ws) : ws \in UNION {[1..n -> SentimentWords] : n \in 0..MaxWords}}

\* _analyze_sentiment tabulated once over its texts
AnalyzeSentimentOf == [t \in SentimentTexts |-> AnalyzeSentiment(t)] @@ <<>>

\* _analyze_sentiment has not been called
NoSentiment == [made |-> FALSE]

\* one _analyze_sentiment call
AnalyzeSentimentCall ==
    /\ \E text \in SentimentTexts :
          sentiment' = [made |-> TRUE, text |-> text, mood |-> AnalyzeSentimentOf[text]]
    /\ UNCHANGED <<configured, lastCall, orchVars, ragVars, similarity, lastMessages,
                   session, turns, extracted>>

\* every value or exception a chat_completion call can end with
AllLLMResults == UNION {LLMResultsOf[conf] : conf \in SUBSET Backends}

\* The string-valued steps of a request, tabulated once over the utterances
\* and the completion outcomes: _select_agents' keyword scan,
\* _ai_agent_selection's parse and the agents' process.
KeywordSelectionOf == [u \in Utterances |-> KeywordSelection(u)] @@ <<>>

AiAgentSelectionOf == [res \in AllLLMResults |-> AiAgentSelection(res)] @@ <<>>

ProcessOf ==
    [x \in Agents \X Utterances \X AllLLMResults |-> Process(x[1], x[2], x[3])] @@ <<>>

\* one chat_completion call for purpose p with outcome res is accounted
Counted(calls, p) == [calls EXCEPT ![p] = @ + 1]
CountedExc(excs, p, res) == IF res.kind = "exc" THEN [excs EXCEPT ![p] = @ + 1] ELSE excs

\* the transport hands an AgentRequest to process_request
Receive ==
    /\ pc = "idle"
    /\ \E u \in Utterances : request' = [input |-> u]
    /\ pc' = "selecting"
    /\ selected' = <<>>
    /\ classification' = NoResult
    /\ agentResp' = NoSlots
    /\ finished' = <<>>
    /\ response' = NoResponse
    /\ synthesis' = NoSynthesis
    /\ directOut' = NoResult
    /\ llmCalls' = ZeroCalls
    /\ llmExc' = ZeroCalls
    /\ invocations' = ZeroInvocations
    /\ UNCHANGED <<ragVars, sideVars, configured, lastCall>>

\* _select_agents, with the classification call when no keyword matched
SelectAgents ==
    /\ pc = "selecting"
    /\ LET byKeyword == KeywordSelectionOf[request.input]
       IN  IF byKeyword # <<>>
           THEN /\ selected' = byKeyword
                /\ UNCHANGED <<classification, llmCalls, llmExc>>
           ELSE \E res \in LLMResultsOf[configured] :
                    /\ selected' = AiAgentSelectionOf[res]
                    /\ classification' = res
                    /\ llmCalls' = Counted(llmCalls, "classify")
                    /\ llmExc' = CountedExc(llmExc, "classify", res)
    /\ pc' = "selected"
    /\ UNCHANGED <<ragVars, sideVars, configured, directOut, finished, synthesis, lastCall,
                   request, agentResp, response, invocations>>

\* the branch of process_request on len(selected_agents)
Dispatch ==
    /\ pc = "selected"
    /\ pc' = IF Len(selected) > 1 THEN "gather"
             ELSE IF Len(selected) = 1 THEN "single"
             ELSE "direct"
    /\ classification' = NoResult
    /\ UNCHANGED <<ragVars, sideVars, configured, directOut, finished, synthesis, lastCall,
                   request, selected, agentResp, response, llmCalls, llmExc,
                   invocations>>

\* variant: agent_map has no entry for the affect responder, whose requests
\* fall to _direct_response
SingleAgentResponseNoEntry ==
    /\ pc = "single"
    /\ \E res \in LLMResultsOf[configured] :
          LET a == selected[1]
              r == ProcessOf[<<a, request.input, res>>]
          IN  IF a = EMOTIONAL
              THEN /\ response' = DirectResponseOf(res)
                   /\ llmCalls' = Counted(llmCalls, "direct")
                   /\ llmExc' = CountedExc(llmExc, "direct", res)
                   /\ directOut' = res
                   /\ UNCHANGED <<agentResp, invocations>>
              ELSE /\ agentResp' = [agentResp EXCEPT ![a] = r]
                   /\ response' = r
                   /\ llmCalls' = Counted(llmCalls, "agent")
                   /\ llmExc' = CountedExc(llmExc, "agent", res)
                   /\ invocations' = [invocations EXCEPT ![a] = @ + 1]
                   /\ UNCHANGED directOut
    /\ pc' = "done"
    /\ UNCHANGED <<ragVars, sideVars, configured, finished, synthesis, lastCall, request,
                   selected, classification>>

\* _single_agent_response: await agent.process(request) and return it
SingleAgentResponse ==
    /\ pc = "single"
    /\ \E res \in LLMResultsOf[configured] :
          LET a == selected[1]
              r == ProcessOf[<<a, request.input, res>>]
          IN  /\ agentResp' = [agentResp EXCEPT ![a] = r]
              /\ response' = r
              /\ llmCalls' = Counted(llmCalls, "agent")
              /\ llmExc' = CountedExc(llmExc, "agent", res)
              /\ invocations' = [invocations EXCEPT ![a] = @ + 1]
    /\ pc' = "done"
    /\ UNCHANGED <<ragVars, sideVars, configured, directOut, finished, synthesis, lastCall,
                   request, selected, classification>>

\* one task of asyncio.gather runs agent a's process to its return
AgentTask(a) ==
    /\ pc = "gather"
    /\ \E i \in 1..Len(selected) : selected[i] = a
    /\ agentResp[a] = NoResponse
    /\ \E res \in LLMResultsOf[configured] :
          /\ agentResp' = [agentResp EXCEPT ![a] = ProcessOf[<<a, request.input, res>>]]
          /\ llmCalls' = Counted(llmCalls, "agent")
          /\ llmExc' = CountedExc(llmExc, "agent", res)
    /\ invocations' = [invocations EXCEPT ![a] = @ + 1]
    /\ finished' = Append(finished, a)
    /\ UNCHANGED <<ragVars, sideVars, configured, directOut, synthesis, lastCall, pc, request,
                   selected, classification, response>>

\* one task of asyncio.gather ends with an exception that `except Exception`
\* in process does not catch (its cancellation); return_exceptions=True puts
\* the exception object in the task's slot
AgentTaskRaises(a) ==
    /\ pc = "gather"
    /\ \E i \in 1..Len(selected) : selected[i] = a
    /\ agentResp[a] = NoResponse
    /\ agentResp' = [agentResp EXCEPT ![a] = Exc("CancelledError")]
    /\ invocations' = [invocations EXCEPT ![a] = @ + 1]
    /\ finished' = Append(finished, a)
    /\ UNCHANGED <<ragVars, sideVars, configured, directOut, synthesis, lastCall, pc, request,
                   selected, classification, response, llmCalls, llmExc>>

\* variant: the await returns when the first task has finished
AllTasksFinishedFirstCompleted ==
    \E i \in 1..Len(selected) : agentResp[selected[i]] # NoResponse

\* every task of the gather has finished
AllTasksFinished ==
    \A i \in 1..Len(selected) : agentResp[selected[i]] # NoResponse

\* variant: the test `if not valid_responses` is missing
GatherJoinNoTest ==
    /\ pc = "gather"
    /\ AllTasksFinished
    /\ pc' = "synthesize"
    /\ UNCHANGED <<ragVars, sideVars, configured, directOut, finished, synthesis, lastCall,
                   request, selected, classification, agentResp, response,
                   llmCalls, llmExc, invocations>>

\* _coordinate_multi_agent_response after the await of asyncio.gather
GatherJoin ==
    /\ pc = "gather"
    /\ AllTasksFinished
    /\ pc' = IF ValidResponses(GatherResults(selected, agentResp)) = <<>>
             THEN "direct" ELSE "synthesize"
    /\ UNCHANGED <<ragVars, sideVars, configured, directOut, finished, synthesis, lastCall,
                   request, selected, classification, agentResp, response,
                   llmCalls, llmExc, invocations>>

\* _synthesize_responses on the valid responses
Synthesize ==
    /\ pc = "synthesize"
    /\ \E res \in LLMResultsOf[configured] :
          /\ response' = SynthesizeResponses(
                             ValidResponses(GatherResults(selected, agentResp)), res)
          /\ synthesis' = [made |-> TRUE, out |-> res,
                           responses |-> ValidResponses(GatherResults(selected, agentResp))]
          /\ llmCalls' = Counted(llmCalls, "synthesize")
          /\ llmExc' = CountedExc(llmExc, "synthesize", res)
    /\ pc' = "done"
    /\ UNCHANGED <<ragVars, sideVars, configured, directOut, finished, lastCall, request,
                   selected, classification, agentResp, invocations>>

\* _direct_response
DirectResponse ==
    /\ pc = "direct"
    /\ \E res \in LLMResultsOf[configured] :
          /\ response' = DirectResponseOf(res)
          /\ directOut' = res
          /\ llmCalls' = Counted(llmCalls, "direct")
          /\ llmExc' = CountedExc(llmExc, "direct", res)
    /\ pc' = "done"
    /\ UNCHANGED <<ragVars, sideVars, configured, finished, synthesis, lastCall, request,
                   selected, classification, agentResp, invocations>>

\* process_request has returned its response; the request and everything
\* local to the call are dropped
Return ==
    /\ pc = "done"
    /\ pc' = "idle"
    /\ request' = [input |-> ""]
    /\ selected' = <<>>
    /\ agentResp' = NoSlots
    /\ finished' = <<>>
    /\ response' = NoResponse
    /\ synthesis' = NoSynthesis
    /\ directOut' = NoResult
    /\ llmCalls' = ZeroCalls
    /\ llmExc' = ZeroCalls
    /\ invocations' = ZeroInvocations
    /\ UNCHANGED <<ragVars, sideVars, configured, lastCall, classification>>

-----------------------------------------------------------------------------
(* The messages argument built by the agents' process and by _direct_response *)

\* longest conversation history, in turns
MaxHistory == 3

\* a history Message of models/types.py: dated, and tagged with the agent
\* that wrote it when an assistant did
HistoryMessage(role, content, agent_type) ==
    [role |-> role, content |-> content, timestamp |-> "t", agent_type |-> agent_type]

\* the turns a history is made of, one per role
HistoryTurns ==
    { HistoryMessage("user", "hi", "none"),
      HistoryMessage("assistant", "hello", EXECUTIVE),
      HistoryMessage("system", "note", "none") }

RECURSIVE HistoriesOfLen(_)
HistoriesOfLen(n) ==
    IF n = 0 THEN {<<>>}
    ELSE {Append(h, m) : h \in HistoriesOfLen(n - 1), m \in HistoryTurns}

Histories == UNION {HistoriesOfLen(n) : n \in 0..MaxHistory}

\* variant: every turn is kept, whatever its role
RECURSIVE FormatConversationHistoryAll(_, _)
FormatConversationHistoryAll(messages, i) ==
    IF i > Len(messages) THEN <<>>
    ELSE <<Message(messages[i].role, messages[i].content)>>
             \o FormatConversationHistoryAll(messages, i + 1)

\* format_conversation_history, from turn i on: the user and assistant turns
\* as role/content dicts
RECURSIVE FormatConversationHistory(_, _)
FormatConversationHistory(messages, i) ==
    IF i > Len(messages) THEN <<>>
    ELSE (IF messages[i].role \in {"user", "assistant"}
          THEN <<Message(messages[i].role, messages[i].content)>>
          ELSE <<>>) \o FormatConversationHistory(messages, i + 1)

\* the line of each agent's prompt template that carries request.input (the
\* other lines of the template do not depend on the history)
PromptLine ==
    [a \in Agents |->
        IF a = EXECUTIVE THEN "User Request: "
        ELSE IF a = EMOTIONAL THEN "User message: " ELSE "User request: "]

\* the messages an agent's process passes to call_llm
AgentMessages(a, history, input) ==
    Append(FormatConversationHistory(history, 1), Message("user", PromptLine[a] \o input))

\* the messages _direct_response passes to chat_completion
DirectMessages(history, input) ==
    Append(FormatConversationHistory(history, 1), Message("user", input))

\* who builds a message list from the conversation history
Senders == Agents \cup {ORCHESTRATOR}

\* no message list has been built
NoMessages ==
    [made |-> FALSE, sender |-> ORCHESTRATOR, history |-> <<>>, input |-> "",
     messages |-> <<>>]

\* one sender builds its messages for a request with some history
BuildMessages ==
    /\ \E sender \in Senders, history \in Histories, input \in {FocusUtterance} :
          lastMessages' =
              [made |-> TRUE, sender |-> sender, history |-> history, input |-> input,
               messages |-> IF sender = ORCHESTRATOR
                            THEN DirectMessages(history, input)
                            ELSE AgentMessages(sender, history, input)]
    /\ UNCHANGED <<configured, lastCall, orchVars, ragVars, sentiment, similarity,
                   session, turns, extracted>>

-----------------------------------------------------------------------------
(* server.py: the session history of the /chat handler, and                *)
(* FirestoreService.save_session / get_session                             *)

\* the /chat turns sent for one session id
MaxTurns == 3

Turns == 1..MaxTurns

\* request.message of each turn
TurnMessage == <<"first", "second", "third", "fourth">>

\* response.content of a turn, as process_request returns it
ChatReplies == {"ok", "sure"}

\* no session document is stored under the session id
NoSession == [exists |-> FALSE, messages |-> <<>>]

\* a turn that has not been sent
NotStarted == [pc |-> "idle", history |-> <<>>, reply |-> ""]

\* get_session: the stored document, None when there is none or the read fails
get_session(doc, ok) == IF ok /\ doc.exists THEN doc ELSE NoSession

\* save_session: the document is set to the given messages; a failed write
\* is logged and leaves the document as it was
save_session(doc, messages, ok) ==
    IF ok THEN [exists |-> TRUE, messages |-> messages] ELSE doc

\* chat, up to the call of process_request: the history is loaded
ChatLoad(t) ==
    /\ turns[t].pc = "idle"
    /\ \E ok \in BOOLEAN :
          turns' = [turns EXCEPT ![t] = [pc |-> "processing",
                                         history |-> get_session(session, ok).messages,
                                         reply |-> ""]]
    /\ UNCHANGED <<configured, lastCall, orchVars, ragVars, sentiment, similarity,
                   lastMessages, session, extracted>>

\* chat, from the return of process_request: the two messages of the turn
\* are appended to the loaded history and the session is saved
ChatSave(t) ==
    /\ turns[t].pc = "processing"
    /\ \E reply \in ChatReplies, ok \in BOOLEAN :
          LET history == turns[t].history
                           \o <<Message("user", TurnMessage[t]),
                                Message("assistant", reply)>>
          IN  /\ session' = save_session(session, history, ok)
              /\ turns' = [turns EXCEPT ![t] = [pc |-> "done", history |-> history,
                                                 reply |-> reply]]
    /\ UNCHANGED <<configured, lastCall, orchVars, ragVars, sentiment, similarity,
                   lastMessages, extracted>>

-----------------------------------------------------------------------------
(* utils/vectors.py *)

\* the texts that are stored and asked about
Texts == {"ab", "cdefg"}

\* the vectors embeddings.create may answer for a text: the service is not
\* bound to answer one text twice with the same vector
EmbeddingsOf == [t \in Texts |-> IF t = "ab" THEN {<<1, 0>>} ELSE {<<3, 4>>, <<4, 3>>}]

\* what one embeddings.create call can do: raise, or answer a vector
EmbedAnswers(text) ==
    {[ok |-> FALSE]} \cup {[ok |-> TRUE, embedding |-> v] : v \in EmbeddingsOf[text]}

\* get_embedding with the cache c, run to its return without interleaving; ans
\* is what embeddings.create does when it is called.  The result is the
\* embedding ([] on failure), the cache after, and whether the call was issued.
GetEmbedding(c, text, ans) ==
    IF text \in DOMAIN c THEN [embedding |-> c[text], cache |-> c, called |-> FALSE]
    ELSE IF ans.ok THEN [embedding |-> ans.embedding,
                         cache |-> (text :> ans.embedding) @@ c, called |-> TRUE]
    ELSE [embedding |-> <<>>, cache |-> c, called |-> TRUE]

RECURSIVE DotFrom(_, _, _)
\* np.dot of two vectors of one length, from index i on
DotFrom(v1, v2, i) ==
    IF i > Len(v1) THEN 0 ELSE v1[i] * v2[i] + DotFrom(v1, v2, i + 1)

\* np.linalg.norm, for the vectors of EmbeddingsOf, whose norms are integers
Norm(v) ==
    LET sq == DotFrom(v, v, 1)
    IN  CHOOSE r \in 0..sq : r * r <= sq /\ (r + 1) * (r + 1) > sq

\* np.dot raises ValueError on vectors of different lengths
ShapeMismatch(vec1, vec2) ==
    vec1 # <<>> /\ vec2 # <<>> /\ Len(vec1) # Len(vec2)

\* variant: the quotient is taken by the first vector's norm alone
cosine_similarityByFirstNorm(vec1, vec2) ==
    IF vec1 = <<>> \/ vec2 = <<>> THEN 0
    ELSE IF Norm(vec1) = 0 \/ Norm(vec2) = 0 THEN 0
    ELSE (DotFrom(vec1, vec2, 1) * 1000) \div (Norm(vec1) * Norm(vec1))

\* cosine_similarity, in thousandths, for vectors of one length
cosine_similarity(vec1, vec2) ==
    IF vec1 = <<>> \/ vec2 = <<>> THEN 0
    ELSE IF Norm(vec1) = 0 \/ Norm(vec2) = 0 THEN 0
    ELSE (DotFrom(vec1, vec2, 1) * 1000) \div (Norm(vec1) * Norm(vec2))

\* the vectors cosine_similarity is called with: empty, all-zero and of
\* integer norm, in two and three dimensions
CosineVectors ==
    { <<>>, <<0, 0>>, <<1, 0>>, <<0, 1>>, <<3, 4>>, <<4, 3>>, <<-3, 4>>,
      <<0, 0, 0>>, <<1, 0, 0>>, <<2, 2, 1>>, <<1, 2, 2>> }

\* one cosine_similarity call on any two vectors: the empty test answers
\* first, then np.dot raises on vectors of two lengths, then the norm test
CosineCall(vec1, vec2) ==
    IF vec1 = <<>> \/ vec2 = <<>> THEN [raised |-> FALSE, value |-> 0]
    ELSE IF ShapeMismatch(vec1, vec2) THEN [raised |-> TRUE, value |-> 0]
    ELSE [raised |-> FALSE, value |-> cosine_similarity(vec1, vec2)]

\* cosine_similarity has not been called
NoSimilarity ==
    [made |-> FALSE, vec1 |-> <<>>, vec2 |-> <<>>, raised |-> FALSE, value |-> 0,
     swapped |-> [raised |-> FALSE, value |-> 0]]

\* cosine_similarity called on a pair of vectors, and on the same pair swapped
CosineSimilarityCall ==
    /\ \E vec1 \in CosineVectors, vec2 \in CosineVectors :
          LET r == CosineCall(vec1, vec2) IN
          similarity' = [made |-> TRUE, vec1 |-> vec1, vec2 |-> vec2,
                         raised |-> r.raised, value |-> r.value,
                         swapped |-> CosineCall(vec2, vec1)]
    /\ UNCHANGED <<configured, lastCall, orchVars, ragVars, sentiment, lastMessages,
                   session, turns, extracted>>

\* variant: a sort that is not stable, p goes before the pairs of its similarity
InsertRankedUnstable(ranked, p) ==
    SelectSeq(ranked, LAMBDA q : q.similarity > p.similarity)
        \o <<p>>
        \o SelectSeq(ranked, LAMBDA q : q.similarity <= p.similarity)

\* list.sort(key=similarity, reverse=True) is stable: p goes behind every
\* pair already ranked whose similarity is not smaller
InsertRanked(ranked, p) ==
    SelectSeq(ranked, LAMBDA q : q.similarity >= p.similarity)
        \o <<p>>
        \o SelectSeq(ranked, LAMBDA q : q.similarity < p.similarity)

RECURSIVE RankFrom(_, _, _)
RankFrom(pairs, i, ranked) ==
    IF i > Len(pairs) THEN ranked
    ELSE RankFrom(pairs, i + 1, InsertRanked(ranked, pairs[i]))

\* find_similar: [raised, items]; items are the top_k (item, similarity) pairs
find_similar(query_embedding, knowledge_base, top_k) ==
    IF \E i \in 1..Len(knowledge_base) :
           ShapeMismatch(query_embedding, knowledge_base[i].embedding)
    THEN [raised |-> TRUE, items |-> <<>>]
    ELSE LET similarities ==
                 [i \in 1..Len(knowledge_base) |->
                     [item |-> knowledge_base[i],
                      similarity |-> cosine_similarity(query_embedding,
                                                       knowledge_base[i].embedding)]]
             sorted == RankFrom(similarities, 1, <<>>)
         IN  [raised |-> FALSE,
              items |-> SubSeq(sorted, 1, IF Len(sorted) < top_k THEN Len(sorted) ELSE top_k)]

\* the coroutines that call get_embedding at the same time
MaxCallers == 3

Callers == 1..MaxCallers

\* get_embedding has not been called by this coroutine
NotCalled == [pc |-> "idle"]

\* the vectors the finished calls for a text have returned
Returned(tasks, text) ==
    {tasks[j].embedding : j \in {k \in Callers : /\ tasks[k].pc = "done"
                                                  /\ tasks[k].text = text
                                                  /\ tasks[k].embedding # <<>>}}

\* get_embedding up to its await: the cache test, and on a miss the call to
\* embeddings.create is issued.  prior: what the calls finished before this
\* one began have returned for the text.
EmbedStart(i) ==
    /\ embedTasks[i] = NotCalled
    /\ \E text \in Texts :
          embedTasks' =
              [embedTasks EXCEPT ![i] =
                  IF text \in DOMAIN cache
                  THEN [pc |-> "done", text |-> text, embedding |-> cache[text],
                        called |-> FALSE, prior |-> Returned(embedTasks, text)]
                  ELSE [pc |-> "awaiting", text |-> text,
                        prior |-> Returned(embedTasks, text)]]
    /\ UNCHANGED <<configured, lastCall, orchVars, sideVars, store, cache,
                   lastContext, lastAdd>>

\* get_embedding after its await: the answer is assigned to the cache entry
\* and returned, or the exception is caught and [] returned
EmbedReturn(i) ==
    /\ embedTasks[i].pc = "awaiting"
    /\ \E ans \in EmbedAnswers(embedTasks[i].text) :
          LET text == embedTasks[i].text
          IN  IF ans.ok
              THEN /\ cache' = (text :> ans.embedding) @@ cache
                   /\ embedTasks' =
                          [embedTasks EXCEPT ![i] =
                              [pc |-> "done", text |-> text, embedding |-> ans.embedding,
                               called |-> TRUE, prior |-> embedTasks[i].prior]]
              ELSE /\ cache' = cache
                   /\ embedTasks' =
                          [embedTasks EXCEPT ![i] =
                              [pc |-> "done", text |-> text, embedding |-> <<>>,
                               called |-> TRUE, prior |-> embedTasks[i].prior]]
    /\ UNCHANGED <<configured, lastCall, orchVars, sideVars, store, lastContext,
                   lastAdd>>

-----------------------------------------------------------------------------
(* services/firestore.py *)

\* the user ids that add and ask
Users == {"u1"}

\* the users of a collection that several users write to
SeveralUsers == {"u1", "u2"}

\* largest number of nodes in the collection that several users write to
MaxSharedNodes == 3

\* default of query_knowledge's limit
QueryLimit == 100

\* save_knowledge: document(node_id).set(data) writes the document of that
\* id, a new one when there is none; ok: the collaborator does not raise
save_knowledge(nodes, node_id, data, ok) ==
    IF ~ok THEN [success |-> FALSE, nodes |-> nodes]
    ELSE [success |-> TRUE,
          nodes |-> IF \E i \in 1..Len(nodes) : nodes[i].id = node_id
                    THEN [i \in 1..Len(nodes) |->
                             IF nodes[i].id = node_id THEN data ELSE nodes[i]]
                    ELSE Append(nodes, data)]

\* variant: the query has no where clause on user_id
query_knowledgeAnyUser(nodes, user_id, limit, ok) ==
    IF ~ok THEN <<>>
    ELSE SubSeq(nodes, 1, IF Len(nodes) < limit THEN Len(nodes) ELSE limit)

\* query_knowledge: the user's nodes, at most limit of them; [] when the
\* collaborator raises
query_knowledge(nodes, user_id, limit, ok) ==
    IF ~ok THEN <<>>
    ELSE LET mine == SelectSeq(nodes, LAMBDA n : n.user_id = user_id)
         IN  SubSeq(mine, 1, IF Len(mine) < limit THEN Len(mine) ELSE limit)

-----------------------------------------------------------------------------
(* services/rag.py *)

\* top_k passed by get_context_for_query
TopK == 5

\* default of max_context_length
DefaultMaxContextLength == 2000

\* the budgets get_context_for_query is called with
MaxContextLengths == {4, 5, DefaultMaxContextLength}

Banner == "Relevant context from your knowledge graph:\n"

\* a metadata argument: None, or a dict given as its set of items
NoMetadata == [kind |-> "none"]
Metadata(items) == [kind |-> "dict", items |-> items]

\* metadata or {}
MetadataOrEmpty(metadata) == IF metadata.kind = "none" THEN {} ELSE metadata.items

\* what add_knowledge is called with: content, category and metadata
KnowledgeItems ==
    { [content |-> "ab", category |-> "profile", metadata |-> NoMetadata],
      [content |-> "cdefg", category |-> "preferences",
       metadata |-> Metadata({<<"source", "system">>})] }

\* variant: the node is built without the caller's category and metadata
NodeDataBare(node_id, user_id, content, embedding, category, metadata) ==
    [id |-> node_id, user_id |-> user_id, content |-> content, embedding |-> embedding,
     category |-> "", metadata |-> {}]

\* node_data of add_knowledge
NodeData(node_id, user_id, content, embedding, category, metadata) ==
    [id |-> node_id, user_id |-> user_id, content |-> content, embedding |-> embedding,
     category |-> category, metadata |-> MetadataOrEmpty(metadata)]

\* str(uuid.uuid4()): an id no stored node has
FreshId(nodes) == Len(nodes) + 1

\* a node saved while EMBEDDING_MODEL named a model of another dimension
LegacyNode == NodeData(1, "u1", "ab", <<1, 0, 0>>, "profile", NoMetadata)

\* the knowledge collection found when the service starts
StoredBefore == {<<>>, <<LegacyNode>>}

\* variant: search_knowledge without its try/except, the error of find_similar
\* reaches the caller
search_knowledgeNoCatch(nodes, c, user_id, query, top_k, ans, storage_ok) ==
    LET got == GetEmbedding(c, query, ans)
        knowledge_base == query_knowledge(nodes, user_id, QueryLimit, storage_ok)
        similar_items == find_similar(got.embedding, knowledge_base, top_k)
        searched == got.embedding # <<>> /\ knowledge_base # <<>>
    IN  [cache |-> got.cache,
         query_embedding |-> got.embedding,
         similar_items |-> IF searched THEN similar_items.items ELSE <<>>,
         raised |-> searched /\ similar_items.raised,
         results |->
             IF ~searched \/ similar_items.raised THEN <<>>
             ELSE [i \in 1..Len(similar_items.items) |->
                      [content |-> similar_items.items[i].item.content,
                       similarity |-> similar_items.items[i].similarity]]]

\* search_knowledge: the VectorSearchResults, the cache after the call, the
\* query embedding and the ranked items they were made from; raised: an
\* exception leaves search_knowledge
search_knowledge(nodes, c, user_id, query, top_k, ans, storage_ok) ==
    LET got == GetEmbedding(c, query, ans)
        knowledge_base == query_knowledge(nodes, user_id, QueryLimit, storage_ok)
        similar_items == find_similar(got.embedding, knowledge_base, top_k)
        searched == got.embedding # <<>> /\ knowledge_base # <<>>
    IN  [cache |-> got.cache,
         query_embedding |-> got.embedding,
         similar_items |-> IF searched THEN similar_items.items ELSE <<>>,
         raised |-> FALSE,
         results |->
             IF ~searched \/ similar_items.raised THEN <<>>
             ELSE [i \in 1..Len(similar_items.items) |->
                      [content |-> similar_items.items[i].item.content,
                       similarity |-> similar_items.items[i].similarity]]]

RECURSIVE ContextPartsFromSkip(_, _, _, _)
\* variant: a result that does not fit is skipped and the loop goes on
ContextPartsFromSkip(results, i, total_length, max_context_length) ==
    IF i > Len(results) THEN <<>>
    ELSE IF total_length + Len(results[i].content) <= max_context_length
    THEN <<"- " \o results[i].content>>
         \o ContextPartsFromSkip(results, i + 1, total_length + Len(results[i].content),
                                 max_context_length)
    ELSE ContextPartsFromSkip(results, i + 1, total_length, max_context_length)

RECURSIVE ContextPartsFrom(_, _, _, _)
\* the loop of get_context_for_query from result i on
ContextPartsFrom(results, i, total_length, max_context_length) ==
    IF i > Len(results) THEN <<>>
    ELSE IF total_length + Len(results[i].content) <= max_context_length
    THEN <<"- " \o results[i].content>>
         \o ContextPartsFrom(results, i + 1, total_length + Len(results[i].content),
                             max_context_length)
    ELSE <<>>

RECURSIVE JoinLines(_)
\* "\n".join(parts)
JoinLines(parts) ==
    IF parts = <<>> THEN ""
    ELSE IF Len(parts) = 1 THEN parts[1]
    ELSE parts[1] \o "\n" \o JoinLines(Tail(parts))

\* get_context_for_query on the results of search_knowledge
ContextOf(results, max_context_length) ==
    LET context_parts == ContextPartsFrom(results, 1, 0, max_context_length)
    IN  IF context_parts # <<>> THEN Banner \o JoinLines(context_parts) ELSE ""

NoContext == [made |-> FALSE]

\* add_knowledge is not the latest call
NoAdd == [made |-> FALSE]

\* what embeddings.create can do for a text: nothing is asked of it when the
\* text is cached
EmbedOutcomes(c, text) == IF text \in DOMAIN c THEN {[ok |-> FALSE]} ELSE EmbedAnswers(text)

\* variant: the node is saved whatever the embedding is
AddKnowledgeOfSaveAlways(nodes, c, user_id, item, ans, save_ok) ==
    LET got == GetEmbedding(c, item.content, ans)
        node_id == FreshId(nodes)
        saved == save_knowledge(nodes, node_id,
                                NodeData(node_id, user_id, item.content, got.embedding,
                                         item.category, item.metadata), save_ok)
    IN  [cache |-> got.cache, embedding |-> got.embedding, called |-> got.called,
         node_id |-> node_id, save_called |-> TRUE,
         success |-> got.embedding # <<>> /\ saved.success, nodes |-> saved.nodes]

\* add_knowledge: embed the content and save a node under a fresh id; nothing
\* is saved when the embedding is empty.  The result is what it returns, the
\* collection and the cache after, and whether save_knowledge was called.
AddKnowledgeOf(nodes, c, user_id, item, ans, save_ok) ==
    LET got == GetEmbedding(c, item.content, ans)
        node_id == FreshId(nodes)
        saved == save_knowledge(nodes, node_id,
                                NodeData(node_id, user_id, item.content, got.embedding,
                                         item.category, item.metadata), save_ok)
    IN  IF got.embedding = <<>>
        THEN [cache |-> got.cache, embedding |-> got.embedding, called |-> got.called,
              node_id |-> node_id, save_called |-> FALSE, success |-> FALSE,
              nodes |-> nodes]
        ELSE [cache |-> got.cache, embedding |-> got.embedding, called |-> got.called,
              node_id |-> node_id, save_called |-> TRUE, success |-> saved.success,
              nodes |-> saved.nodes]

\* one add_knowledge call by one of the given users, while the collection
\* holds fewer than max_nodes nodes
AddKnowledgeBy(users, max_nodes) ==
    /\ Len(store) < max_nodes
    /\ \E user_id \in users, item \in KnowledgeItems, save_ok \in BOOLEAN :
        \E ans \in EmbedOutcomes(cache, item.content) :
          LET added == AddKnowledgeOf(store, cache, user_id, item, ans, save_ok)
          IN  /\ cache' = added.cache
              /\ store' = added.nodes
              /\ lastAdd' = [made |-> TRUE, user_id |-> user_id, item |-> item,
                             cached |-> item.content \in DOMAIN cache,
                             embedding |-> added.embedding, called |-> added.called,
                             node_id |-> added.node_id,
                             save_called |-> added.save_called,
                             success |-> added.success]
    /\ lastContext' = NoContext
    /\ UNCHANGED <<configured, lastCall, orchVars, sideVars, embedTasks>>

\* one add_knowledge call
AddKnowledge == AddKnowledgeBy(Users, MaxNodes)

\* one get_context_for_query call by one of the given users
GetContextForQueryBy(users) ==
    /\ \E user_id \in users, query \in Texts, max_context_length \in MaxContextLengths,
          storage_ok \in BOOLEAN :
        \E ans \in EmbedOutcomes(cache, query) :
          LET found == search_knowledge(store, cache, user_id, query, TopK,
                                        ans, storage_ok)
          IN  /\ cache' = found.cache
              /\ lastContext' = [made |-> TRUE, user_id |-> user_id, query |-> query,
                                 max_context_length |-> max_context_length,
                                 storage_ok |-> storage_ok,
                                 query_embedding |-> found.query_embedding,
                                 similar_items |-> found.similar_items,
                                 results |-> found.results,
                                 raised |-> found.raised,
                                 context |-> IF found.raised THEN ""
                                             ELSE ContextOf(found.results,
                                                            max_context_length)]
    /\ lastAdd' = NoAdd
    /\ UNCHANGED <<configured, lastCall, orchVars, sideVars, embedTasks, store>>

\* one get_context_for_query call
GetContextForQuery == GetContextForQueryBy(Users)

-----------------------------------------------------------------------------
(* Specifications *)

\* MultiLLMClient.__init__: any subset of the four credentials is present
Init ==
    /\ configured \in SUBSET Backends
    /\ lastCall = NoCall
    /\ pc = "idle"
    /\ request = [input |-> ""]
    /\ selected = <<>>
    /\ classification = NoResult
    /\ agentResp = NoSlots
    /\ finished = <<>>
    /\ response = NoResponse
    /\ synthesis = NoSynthesis
    /\ directOut = NoResult
    /\ llmCalls = ZeroCalls
    /\ llmExc = ZeroCalls
    /\ invocations = ZeroInvocations
    /\ sentiment = NoSentiment
    /\ similarity = NoSimilarity
    /\ lastMessages = NoMessages
    /\ session = NoSession
    /\ turns = [t \in Turns |-> NotStarted]
    /\ extracted = NoExtraction
    /\ store = <<>>
    /\ cache = <<>>
    /\ lastContext = NoContext
    /\ lastAdd = NoAdd
    /\ embedTasks = [i \in Callers |-> NotCalled]

RequestStep ==
    \/ SelectAgents
    \/ Dispatch
    \/ SingleAgentResponse
    \/ \E a \in Agents : AgentTask(a)
    \/ \E a \in Agents : AgentTaskRaises(a)
    \/ GatherJoin
    \/ Synthesize
    \/ DirectResponse
    \/ Return

Next == Receive \/ RequestStep

\* the orchestrator serving requests
Spec == Init /\ [][Next]_vars

\* the event loop runs every ready coroutine; every awaited call returns or raises
FairSpec == Spec /\ WF_vars(RequestStep)

\* the completion client called on its own
SpecLLM == Init /\ [][ChatCompletionCall]_vars

\* the completion client called on its own, its arguments observed
SpecLLMRequest == Init /\ [][ChatCompletionRequest]_vars

NextRAG == AddKnowledge \/ GetContextForQuery

\* the knowledge service does not use the completion client: its calls are
\* followed from one configuration, the one whose key the embeddings use
InitEmbed == Init /\ configured = {"openai"}

\* the knowledge service starts on the collection as it was left
InitRAG ==
    \E before \in StoredBefore :
        /\ configured = {"openai"}
        /\ lastCall = NoCall
        /\ pc = "idle"
        /\ request = [input |-> ""]
        /\ selected = <<>>
        /\ classification = NoResult
        /\ agentResp = NoSlots
        /\ finished = <<>>
        /\ response = NoResponse
        /\ synthesis = NoSynthesis
        /\ directOut = NoResult
        /\ llmCalls = ZeroCalls
        /\ llmExc = ZeroCalls
        /\ invocations = ZeroInvocations
        /\ sentiment = NoSentiment
        /\ similarity = NoSimilarity
        /\ lastMessages = NoMessages
        /\ session = NoSession
        /\ turns = [t \in Turns |-> NotStarted]
        /\ extracted = NoExtraction
        /\ store = before
        /\ cache = <<>>
        /\ lastContext = NoContext
        /\ lastAdd = NoAdd
        /\ embedTasks = [i \in Callers |-> NotCalled]

\* the knowledge service called on its own
SpecRAG == InitRAG /\ [][NextRAG]_vars

NextRAGUsers ==
    AddKnowledgeBy(SeveralUsers, MaxSharedNodes) \/ GetContextForQueryBy(SeveralUsers)

\* the knowledge service called by several users on one collection
SpecRAGUsers == InitRAG /\ [][NextRAGUsers]_vars

NextEmbed == \E i \in Callers : EmbedStart(i) \/ EmbedReturn(i)

\* get_embedding called by coroutines that run at the same time
SpecEmbed == InitEmbed /\ [][NextEmbed]_vars

\* the agents and the direct path building their messages
SpecMessages == InitEmbed /\ [][BuildMessages]_vars

\* /chat turns of one session, handled concurrently
NextChat == \E t \in Turns : ChatLoad(t) \/ ChatSave(t)

SpecChat == InitEmbed /\ [][NextChat]_vars

\* ExecutiveAgent.process called on its own
SpecExecutive == InitEmbed /\ [][ExecutiveProcessCall]_vars

\* cosine_similarity called on its own
SpecCosine == InitEmbed /\ [][CosineSimilarityCall]_vars

\* _analyze_sentiment called on its own
SpecSentiment == InitEmbed /\ [][AnalyzeSentimentCall]_vars

-----------------------------------------------------------------------------
(* Properties of chat_completion, checked under SpecLLM *)

\* the configured backends before position i all failed in the observed call
EarlierAllFailed(i) ==
    \A j \in 1..(i - 1) :
        BackendOrder[j] \in configured => lastCall.out[BackendOrder[j]] = Failed

\* backend b was invoked in the observed call
Invoked(b) ==
    \E k \in 1..Len(lastCall.trace.invoked) : lastCall.trace.invoked[k] = b

\* C1: chat_completion returns the result of the first configured backend, in
\* the order Euron, DeepSeek, Gemini, OpenAI, whose call succeeds, and no
\* backend later in the order is invoked after that success.
C1_FirstSuccessReturned ==
    lastCall.made =>
        \A i \in 1..Len(BackendOrder) :
            (/\ BackendOrder[i] \in configured
             /\ lastCall.out[BackendOrder[i]] # Failed
             /\ EarlierAllFailed(i))
            => /\ lastCall.trace.result = lastCall.out[BackendOrder[i]]
               /\ Invoked(BackendOrder[i])
               /\ \A j \in (i + 1)..Len(BackendOrder) : ~Invoked(BackendOrder[j])

\* A and B fail, C succeeds with a text, D is configured and was not invoked
C1_Witness ==
    /\ lastCall.made
    /\ configured = Backends
    /\ lastCall.out["euron"] = Failed
    /\ lastCall.out["deepseek"] = Failed
    /\ lastCall.out["gemini"].kind = "text"
    /\ lastCall.out["openai"] # Failed
    /\ lastCall.trace.result = lastCall.out["gemini"]
    /\ lastCall.trace.invoked = <<"euron", "deepseek", "gemini">>

\* C2: chat_completion raises, and returns nothing, exactly when every
\* configured backend's call fails or no backend is configured.
C2_RaisesIffAllFail ==
    lastCall.made =>
        (lastCall.trace.result.kind = "exc"
            <=> \A b \in configured : lastCall.out[b] = Failed)

\* a call that raised although backends are configured: all of them failed
C2_Witness ==
    /\ lastCall.made
    /\ Cardinality(configured) >= 2
    /\ lastCall.trace.result.kind = "exc"
    /\ Len(lastCall.trace.invoked) = Cardinality(configured)

\* C3: the backends invoked within one call are configured ones, in strictly
\* increasing priority order (so none twice); an unconfigured backend is
\* never invoked, and the call fails only on failures of configured backends.
C3_InvokedIncreasingConfigured ==
    lastCall.made =>
        /\ \A k \in 1..Len(lastCall.trace.invoked) :
               lastCall.trace.invoked[k] \in configured
        /\ \A k, l \in 1..Len(lastCall.trace.invoked) :
               k < l => Priority(lastCall.trace.invoked[k]) < Priority(lastCall.trace.invoked[l])
        /\ \A b \in Backends \ configured :
               lastCall.trace = ChatCompletion(configured, [lastCall.out EXCEPT ![b] = Failed])

\* an unconfigured backend between two configured ones was skipped
C3_Witness ==
    /\ lastCall.made
    /\ configured = {"euron", "gemini"}
    /\ lastCall.out["deepseek"] # Failed
    /\ lastCall.trace.invoked = <<"euron", "gemini">>

-----------------------------------------------------------------------------
(* Properties of the agents and of process_request, checked under Spec *)

\* agent a is in selected_agents
IsSelected(a) == \E i \in 1..Len(selected) : selected[i] = a

\* the keyword set of each variant
KeywordsOf(a) ==
    CASE a = EXECUTIVE -> executive_keywords
      [] a = EMOTIONAL -> emotional_keywords
      [] a = PRIORITIZATION -> priority_keywords

\* some keyword of variant a occurs in the lowercased utterance u
KeywordHitIn(u, a) ==
    \E k \in KeywordsOf(a) :
        \E i \in 1..Len(u) :
            /\ i + Len(k) - 1 <= Len(u)
            /\ Lower(SubSeq(u, i, i + Len(k) - 1)) = k

\* per utterance, the variants with a keyword occurring in it
MatchedSetsOf == [u \in Utterances |-> {a \in Agents : KeywordHitIn(u, a)}] @@ <<>>

\* some keyword of variant a occurs in the utterance of the request
KeywordHit(a) == a \in MatchedSetsOf[request.input]

\* the confidence each variant uses in its except branch
FallbackConfidenceOf(a) ==
    CASE a = EXECUTIVE -> ExecutiveFallbackConfidence
      [] a = EMOTIONAL -> EmotionalFallbackConfidence
      [] a = PRIORITIZATION -> PrioritizationFallbackConfidence
      [] a = ORCHESTRATOR -> LastResortConfidence

\* chat_completion calls were issued in this request and every one raised
EveryCallRaised ==
    /\ \E p \in Purposes : llmCalls[p] > 0
    /\ \A p \in Purposes : llmExc[p] = llmCalls[p]

\* C4: whatever the completion calls do (any text, or failure), the Response
\* returned by process_request has non-empty text.
C4_ResponseTextNonEmpty ==
    pc = "done" => response.kind = "response" /\ response.content # ""

\* C5: every process_request invocation eventually reaches Done with a
\* Response, whatever fails along the selection, responder, synthesis and
\* direct paths; the Response, once returned, is the only one of the request.
C5_EveryRequestAnswered ==
    /\ (pc = "selecting") ~> (pc = "done" /\ response.kind = "response")
    /\ [][(pc = "done" /\ pc' # "idle") => UNCHANGED response]_vars
    /\ [](pc # "done" => response = NoResponse)

\* a request answered although a responder task raised and the synthesis call failed
C5_Witness ==
    /\ pc = "done"
    /\ response.kind = "response"
    /\ \E a \in Agents : agentResp[a].kind = "exc"
    /\ llmExc["synthesize"] = 1

\* C6: when every completion call fails with the total-exhaustion error, each
\* Responder's process, and the Coordinator around it, returns a non-empty
\* Response whose confidence is the low fallback confidence, not the
\* variant's normal confidence.
C6_AllFailLowConfidence ==
    EveryCallRaised =>
        /\ \A a \in Agents :
              agentResp[a].kind = "response" =>
                  /\ agentResp[a].content # ""
                  /\ agentResp[a].confidence = FallbackConfidenceOf(a)
        /\ pc = "done" =>
              /\ response.content # ""
              /\ response.confidence = FallbackConfidenceOf(response.agent_type)

\* C7: each variant's process returns a Response for every request and every
\* outcome of its completion call, tagged with the responder's own variant on
\* the success path and on the failure path.  (A task the event loop cancels
\* is no outcome of a collaborator; its slot holds the cancellation.)
C7_ProcessReturnsOwnTag ==
    \A a \in Agents :
        /\ invocations[a] > 0 /\ agentResp[a] # Exc("CancelledError")
              => agentResp[a].kind = "response" /\ agentResp[a].agent_type = a
        /\ invocations[a] = 0 => agentResp[a] = NoResponse

\* one responder on its failure path and another on its success path
C7_Witness ==
    /\ agentResp[EMOTIONAL] = EmotionalFallback
    /\ agentResp[PRIORITIZATION].kind = "response"
    /\ agentResp[PRIORITIZATION].confidence = PrioritizationConfidence

\* C8: when the lowercased utterance contains a keyword of any of the three
\* sets, _select_agents returns exactly the variants whose set has a member
\* occurring as a substring, each once, and issues no classification call; an
\* utterance with only a logistics keyword yields exactly {Logistics}.
C8_KeywordSelection ==
    (pc = "selected" /\ \E a \in Agents : KeywordHit(a)) =>
        /\ \A a \in Agents : IsSelected(a) <=> KeywordHit(a)
        /\ Len(selected) = Cardinality({a \in Agents : KeywordHit(a)})
        /\ llmCalls["classify"] = 0
        /\ (KeywordHit(EXECUTIVE) /\ ~KeywordHit(EMOTIONAL) /\ ~KeywordHit(PRIORITIZATION))
              => selected = <<EXECUTIVE>>

\* an utterance with a logistics and an affect keyword selects both variants
C8_Witness ==
    /\ pc = "selected"
    /\ request.input = "Calendar sadly"
    /\ selected = <<EXECUTIVE, EMOTIONAL>>
    /\ llmCalls["classify"] = 0

\* the variant labels occurring, in any case, in the classification reply
LabelsIn(reply) == {a \in Agents : Contains(Lower(reply), a)}

\* C9: when no keyword matches, exactly one classification call is issued and
\* the selection is the set of variant labels occurring case-insensitively in
\* its reply; if the reply names no variant, or the call fails, the selection
\* is exactly {Logistics}.
C9_ClassificationSelection ==
    (pc = "selected" /\ \A a \in Agents : ~KeywordHit(a)) =>
        /\ llmCalls["classify"] = 1
        /\ classification # NoResult
        /\ IF classification.kind = "text" /\ LabelsIn(classification.text) # {}
           THEN /\ \A a \in Agents : IsSelected(a) <=> a \in LabelsIn(classification.text)
                /\ Len(selected) = Cardinality(LabelsIn(classification.text))
           ELSE selected = <<EXECUTIVE>>

\* a mixed-case reply naming two variants selects those two
C9_Witness ==
    /\ pc = "selected"
    /\ request.input = "hello"
    /\ classification = Text("Emotional, Prioritization: rest, research, remind, connect")
    /\ selected = <<EMOTIONAL, PRIORITIZATION>>
    /\ llmCalls["classify"] = 1

\* C10: when exactly one variant is selected, process_request invokes only
\* that variant's Responder, exactly once, and returns its Response unchanged,
\* with no synthesis call and no direct completion call.
C10_SingleAgentUnchanged ==
    (pc = "done" /\ Len(selected) = 1) =>
        /\ response = agentResp[selected[1]]
        /\ response.kind = "response"
        /\ response.agent_type = selected[1]
        /\ \A a \in Agents : invocations[a] = IF a = selected[1] THEN 1 ELSE 0
        /\ llmCalls["agent"] = 1
        /\ llmCalls["synthesize"] = 0
        /\ llmCalls["direct"] = 0

\* the affect responder alone answered, with its normal confidence
C10_Witness ==
    /\ pc = "done"
    /\ selected = <<EMOTIONAL>>
    /\ response.agent_type = EMOTIONAL
    /\ response.confidence = EmotionalConfidence
    /\ invocations[EMOTIONAL] = 1

-----------------------------------------------------------------------------
(* Properties of the multi-agent path, checked under Spec *)

\* the variants with a keyword occurring in the utterance
MatchedSets == MatchedSetsOf[request.input]

\* the selected variants whose slot holds an AgentResponse, in the order
\* Logistics, Affect, Prioritization of the selection
ValidSelected ==
    SelectSeq(<<EXECUTIVE, EMOTIONAL, PRIORITIZATION>>,
              LAMBDA a : IsSelected(a) /\ agentResp[a].kind = "response")

RECURSIVE ActionsBefore(_)
\* number of actions of the valid responses before the k-th one
ActionsBefore(k) ==
    IF k = 1 THEN 0
    ELSE ActionsBefore(k - 1) + Len(agentResp[ValidSelected[k - 1]].actions)

\* the synthesis call was issued and returned a text
SynthesisSucceeded == synthesis.made /\ synthesis.out.kind = "text"

\* C11: an utterance with keywords of two or more sets takes the multi-agent
\* path (never the single-agent one), and a synthesized Response is tagged
\* Coordinator with, as actions, the valid Responses' actions concatenated in
\* invocation order, duplicates kept: every variant's actions are in it.
C11_SynthesizedActions ==
    (Cardinality(MatchedSets) >= 2 /\ pc \notin {"idle", "selecting"}) =>
        /\ Len(selected) >= 2
        /\ pc # "single"
        /\ pc = "done" => (synthesis.made \/ llmCalls["direct"] = 1)
        /\ (pc = "done" /\ SynthesisSucceeded) =>
              /\ response.agent_type = ORCHESTRATOR
              /\ response.content = synthesis.out.text
              /\ Len(response.actions) = ActionsBefore(Len(ValidSelected) + 1)
              /\ \A k \in 1..Len(ValidSelected) :
                    \A n \in 1..Len(agentResp[ValidSelected[k]].actions) :
                        response.actions[ActionsBefore(k) + n]
                            = agentResp[ValidSelected[k]].actions[n]

\* two variants answered with actions and the synthesis carries all four
C11_Witness ==
    /\ pc = "done"
    /\ request.input = "Calendar sadly"
    /\ SynthesisSucceeded
    /\ agentResp[EXECUTIVE].kind = "response"
    /\ agentResp[EMOTIONAL].kind = "response"
    /\ Len(agentResp[EXECUTIVE].actions) = 2
    /\ Len(agentResp[EMOTIONAL].actions) = 2
    /\ Len(response.actions) = 4

\* the confidences a variant's process can return, over every utterance and
\* every outcome of its completion call
VariantConfidences ==
    {ProcessOf[x].confidence : x \in Agents \X Utterances \X AllLLMResults}

\* C12: the confidence of a synthesized (Coordinator-tagged, multi-variant)
\* Response differs from the confidence of every Response an individual
\* variant can produce.
C12_SynthesisConfidenceDistinct ==
    (pc = "done" /\ SynthesisSucceeded) => response.confidence \notin VariantConfidences

\* the synthesis call was issued and raised, or returned no text
SynthesisFailed == synthesis.made /\ synthesis.out.kind # "text"

\* C13: when the synthesis call fails, process_request returns, unchanged, the
\* valid Response of the earliest selected variant in the order Logistics,
\* Affect, Prioritization, whatever order the tasks finished in; the turn
\* does not fail and no direct completion is issued.
C13_SynthesisFailureFirstResponse ==
    (pc = "done" /\ SynthesisFailed) =>
        /\ ValidSelected # <<>>
        /\ response = agentResp[ValidSelected[1]]
        /\ response.kind = "response"
        /\ llmCalls["direct"] = 0

\* the affect task finished before the logistics task, the synthesis call
\* raised, and the logistics Response is the one returned
C13_Witness ==
    /\ pc = "done"
    /\ synthesis.made
    /\ synthesis.out.kind = "exc"
    /\ finished = <<EMOTIONAL, EXECUTIVE>>
    /\ response = agentResp[EXECUTIVE]
    /\ response # agentResp[EMOTIONAL]

\* process_request is past the join of the gather
PastJoin == Len(selected) > 1 /\ pc \in {"synthesize", "direct", "done"}

\* C14: in the multi-agent path, whichever of the selected tasks fail, every
\* selected task has run once, the Responses of all the others are what is
\* passed to synthesis, in order, and only the failing tasks' results are
\* dropped; one remaining Response is enough for synthesis to be called.
C14_SiblingsKept ==
    PastJoin =>
        /\ \A a \in Agents :
              IF IsSelected(a)
              THEN invocations[a] = 1 /\ agentResp[a].kind \in {"response", "exc"}
              ELSE invocations[a] = 0
        /\ ValidSelected # <<>> =>
              /\ pc # "direct"
              /\ llmCalls["direct"] = 0
              /\ pc = "done" =>
                    /\ synthesis.made
                    /\ Len(synthesis.responses) = Len(ValidSelected)
                    /\ \A k \in 1..Len(ValidSelected) :
                          synthesis.responses[k] = agentResp[ValidSelected[k]]

\* of three selected tasks the affect one failed first; the two others ran
\* after it and their Responses went to synthesis
C14_Witness ==
    /\ pc = "done"
    /\ Len(selected) = 3
    /\ finished[1] = EMOTIONAL
    /\ agentResp[EMOTIONAL].kind = "exc"
    /\ synthesis.made
    /\ synthesis.responses = <<agentResp[EXECUTIVE], agentResp[PRIORITIZATION]>>

\* C15: in the multi-agent path, when no valid Response remains after the
\* join, process_request issues the direct completion, once, and returns its
\* Coordinator-tagged Response; no synthesis call is issued and the result is
\* a Response, not an absent one or an error.
C15_ZeroValidGoesDirect ==
    (PastJoin /\ ValidSelected = <<>>) =>
        /\ pc \in {"direct", "done"}
        /\ ~synthesis.made
        /\ llmCalls["synthesize"] = 0
        /\ pc = "done" =>
              /\ llmCalls["direct"] = 1
              /\ response.kind = "response"
              /\ response.agent_type = ORCHESTRATOR
              /\ response.confidence \in {DirectConfidence, LastResortConfidence}

\* both selected tasks failed and the direct completion answered
C15_Witness ==
    /\ pc = "done"
    /\ Len(selected) = 2
    /\ \A i \in 1..2 : agentResp[selected[i]].kind = "exc"
    /\ llmCalls["direct"] = 1
    /\ response.confidence = DirectConfidence

\* C16: the direct path issues exactly one completion call.  When it returns
\* a text the Response is Coordinator-tagged with that text, no actions and
\* confidence 0.75; on any failure the Response is the fixed last-resort one
\* (Coordinator-tagged, no actions, confidence 0.3) and no other completion
\* call follows.
C16_DirectPath ==
    (pc = "done" /\ directOut # NoResult) =>
        /\ llmCalls["direct"] = 1
        /\ llmCalls["synthesize"] = 0
        /\ IF directOut.kind = "text"
           THEN /\ response.agent_type = ORCHESTRATOR
                /\ response.content = directOut.text
                /\ response.actions = <<>>
                /\ response.confidence = 75
           ELSE /\ response.agent_type = ORCHESTRATOR
                /\ response.content = LastResortText
                /\ response.actions = <<>>
                /\ response.confidence = 30

\* the direct completion call raised and the last-resort Response was returned
C16_Witness ==
    /\ pc = "done"
    /\ directOut.kind = "exc"
    /\ llmCalls["direct"] = 1
    /\ response.content = LastResortText

\* every selected variant's task is in the sequence of finished tasks
EverySelectedFinished ==
    /\ Len(finished) = Len(selected)
    /\ \A i \in 1..Len(selected) : \E j \in 1..Len(finished) : finished[j] = selected[i]

\* C17: under every interleaving of the tasks of the multi-agent path, the
\* step that issues the synthesis call, or the direct fallback call, is taken
\* only when every selected variant's task has finished, by returning or by
\* failing.
C17_JoinBeforeSynthesis ==
    [][(/\ Len(selected) > 1
        /\ \/ llmCalls'["synthesize"] > llmCalls["synthesize"]
           \/ llmCalls'["direct"] > llmCalls["direct"])
       => EverySelectedFinished]_vars

\* three tasks finished in an order other than the task order, one of them by
\* failing, before the synthesis call was issued
C17_Witness ==
    /\ synthesis.made
    /\ finished = <<PRIORITIZATION, EXECUTIVE, EMOTIONAL>>
    /\ agentResp[EXECUTIVE].kind = "exc"
    /\ llmCalls["synthesize"] = 1

-----------------------------------------------------------------------------
(* Properties of the knowledge service, checked under SpecRAG *)

\* the stored nodes of the user of the observed call
UserNodes == SelectSeq(store, LAMBDA n : n.user_id = lastContext.user_id)

\* C18: get_context_for_query never returns a string longer than
\* max_context_length plus the length of the banner.
C18_ContextWithinBudget ==
    lastContext.made =>
        Len(lastContext.context) <= lastContext.max_context_length + Len(Banner)

\* some stored node of the user has a content within the budget
SomeCandidateFits ==
    \E i \in 1..Len(UserNodes) :
        Len(UserNodes[i].content) <= lastContext.max_context_length

\* C19: the returned string is empty if and only if the user's knowledge
\* base is empty or no candidate fits within max_context_length.
C19_EmptyIffNothingFits ==
    lastContext.made =>
        (lastContext.context = "" <=> (UserNodes = <<>> \/ ~SomeCandidateFits))

\* the user's whole stored set ranked against the query, as search results
FullRanking ==
    LET ranked == find_similar(lastContext.query_embedding, UserNodes,
                               Len(UserNodes)).items
    IN  [i \in 1..Len(ranked) |->
            [content |-> ranked[i].item.content, similarity |-> ranked[i].similarity]]

\* C20: every stored node of the user is ranked and eligible: the context of
\* a query that found results is built from the ranking of the user's full
\* stored set, cut by the character budget only.
C20_FullScanNoCap ==
    (lastContext.made /\ lastContext.results # <<>>) =>
        lastContext.context = ContextOf(FullRanking, lastContext.max_context_length)

RECURSIVE ContentLength(_, _)
\* the characters of the contents of the first k results
ContentLength(results, k) ==
    IF k = 0 THEN 0 ELSE ContentLength(results, k - 1) + Len(results[k].content)

\* the context that lists the first k results whole, one "- " line each
PrefixContext(results, k) ==
    IF k = 0 THEN ""
    ELSE Banner \o JoinLines([i \in 1..k |-> "- " \o results[i].content])

\* the first k results are within the budget and the next one, if any, is not
CutAt(results, k, max_context_length) ==
    /\ ContentLength(results, k) <= max_context_length
    /\ k < Len(results) => ContentLength(results, k + 1) > max_context_length

\* C21: the items of the context are, in rank order, a prefix of the ranked
\* results, each content whole: items are taken while the cumulative content
\* length stays within max_context_length and the first result that would
\* overflow ends the list.
C21_ContextIsRankedPrefix ==
    lastContext.made =>
        \E k \in 0..Len(lastContext.results) :
            /\ CutAt(lastContext.results, k, lastContext.max_context_length)
            /\ lastContext.context = PrefixContext(lastContext.results, k)

\* a call that listed some results and whose list was ended by a result
\* that would overflow
C21_Witness ==
    /\ lastContext.made
    /\ \E k \in 1..(Len(lastContext.results) - 1) :
          /\ CutAt(lastContext.results, k, lastContext.max_context_length)
          /\ lastContext.context = PrefixContext(lastContext.results, k)

\* the place of a node in the order the collection streams its documents
FetchPosition(node) == CHOOSE p \in 1..Len(store) : store[p].id = node.id

\* C22: find_similar returns the candidates by descending similarity, and
\* candidates of equal similarity in the order they were fetched.
C22_RankedDescendingStable ==
    lastContext.made =>
        \A i, j \in 1..Len(lastContext.similar_items) :
            i < j =>
                LET a == lastContext.similar_items[i]
                    b == lastContext.similar_items[j]
                IN  \/ a.similarity > b.similarity
                    \/ /\ a.similarity = b.similarity
                       /\ FetchPosition(a.item) < FetchPosition(b.item)

\* a ranking with two candidates of one similarity and a third of another,
\* fetched before one of them
C22_Witness ==
    /\ lastContext.made
    /\ \E i, j, k \in 1..Len(lastContext.similar_items) :
          /\ i < j
          /\ j < k
          /\ lastContext.similar_items[i].similarity = lastContext.similar_items[j].similarity
          /\ lastContext.similar_items[j].similarity > lastContext.similar_items[k].similarity
          /\ FetchPosition(lastContext.similar_items[k].item)
                 < FetchPosition(lastContext.similar_items[j].item)

\* the call embedded its query and fetched the user's nodes
Searched ==
    /\ lastContext.made
    /\ lastContext.query_embedding # <<>>
    /\ lastContext.storage_ok

\* C23: a stored embedding whose dimension differs from the query's scores 0
\* and raises nothing: the query still ranks the user's nodes, top_k of them
\* at most, and returns them.
C23_MismatchedVectorScoresZero ==
    Searched =>
        /\ Len(lastContext.similar_items)
               = (IF Len(UserNodes) < TopK THEN Len(UserNodes) ELSE TopK)
        /\ Len(lastContext.results) = Len(lastContext.similar_items)
        /\ \A k \in 1..Len(lastContext.similar_items) :
               ShapeMismatch(lastContext.query_embedding,
                             lastContext.similar_items[k].item.embedding)
                   => lastContext.similar_items[k].similarity = 0

\* C24: when get_embedding yields an empty vector, add_knowledge returns
\* False, save_knowledge is not called and the collection is as it was.
C24_NoEmbeddingNoWrite ==
    [][(lastAdd'.made /\ lastAdd'.embedding = <<>>) =>
           /\ ~lastAdd'.success
           /\ ~lastAdd'.save_called
           /\ store' = store]_vars

\* an add_knowledge call on a collection with nodes whose embedding failed
C24_Witness ==
    /\ lastAdd.made
    /\ lastAdd.called
    /\ lastAdd.embedding = <<>>
    /\ Len(store) > 1

\* the ids of the stored nodes
StoredIds == {store[i].id : i \in 1..Len(store)}

\* the node a successful add_knowledge call is to have persisted
PersistedBy(add) ==
    [id |-> add.node_id, user_id |-> add.user_id, content |-> add.item.content,
     embedding |-> add.embedding, category |-> add.item.category,
     metadata |-> IF add.item.metadata.kind = "none" THEN {} ELSE add.item.metadata.items]

\* C25: every add_knowledge call that returns True has persisted exactly one
\* new node, under an id no node had, with the given user id, content,
\* embedding, category and metadata (none given: empty); and no call
\* overwrites or deletes a node stored before.
C25_AddPersistsOneNode ==
    [][/\ (lastAdd'.made /\ lastAdd'.success) =>
              /\ lastAdd'.node_id \notin StoredIds
              /\ lastAdd'.embedding # <<>>
              /\ store' = Append(store, PersistedBy(lastAdd'))
       /\ Len(store') >= Len(store)
       /\ SubSeq(store', 1, Len(store)) = store]_vars

\* a successful add_knowledge call with metadata on a collection with nodes
C25_Witness ==
    /\ lastAdd.made
    /\ lastAdd.success
    /\ lastAdd.item.metadata.kind = "dict"
    /\ Len(store) > 2
    /\ store[Len(store)] = PersistedBy(lastAdd)

\* C28: get_context_for_query never raises, and with an empty knowledge
\* base, a failed query embedding or a failing storage collaborator it returns
\* the empty string, without the banner.
C28_ContextNeverRaises ==
    lastContext.made =>
        /\ ~lastContext.raised
        /\ (\/ UserNodes = <<>>
            \/ lastContext.query_embedding = <<>>
            \/ ~lastContext.storage_ok) => lastContext.context = ""

\* a call whose storage collaborator failed while the user has nodes that fit
C28_Witness ==
    /\ lastContext.made
    /\ ~lastContext.storage_ok
    /\ lastContext.query_embedding # <<>>
    /\ SomeCandidateFits
    /\ lastContext.context = ""

-----------------------------------------------------------------------------
(* Properties of get_embedding under concurrent calls, checked under SpecEmbed *)

\* C26: a get_embedding call that begins after a call for the same text has
\* succeeded returns the vector that call returned, and issues no
\* embeddings.create call.
C26_LaterCallsReturnCached ==
    \A i \in Callers :
        (embedTasks[i].pc = "done" /\ embedTasks[i].prior # {}) =>
            /\ ~embedTasks[i].called
            /\ \A v \in embedTasks[i].prior : embedTasks[i].embedding = v

\* C27: the cache is written insert-if-absent: an entry, once written, is
\* never replaced by another vector.
C27_InsertIfAbsent ==
    [][\A t \in DOMAIN cache : t \in DOMAIN cache' /\ cache'[t] = cache[t]]_vars

-----------------------------------------------------------------------------
(* Properties of _analyze_sentiment, checked under SpecSentiment *)

\* the lowercased text of the observed call contains a word of ws
Has(ws) == ContainsAny(Lower(sentiment.text), ws)

\* C29: _analyze_sentiment answers by the first matching rule in the order
\* frustration, sadness, stress, positive (EXCITED iff the text contains
\* "excited", HAPPY otherwise), and NEUTRAL when no rule matches.
C29_FirstMatchingRule ==
    sentiment.made =>
        /\ sentiment.mood = "frustrated" <=> Has(FrustratedWords)
        /\ sentiment.mood = "sad" <=> (~Has(FrustratedWords) /\ Has(SadWords))
        /\ sentiment.mood = "stressed" <=>
               (~Has(FrustratedWords) /\ ~Has(SadWords) /\ Has(StressedWords))
        /\ sentiment.mood = "excited" <=>
               (/\ ~Has(FrustratedWords) /\ ~Has(SadWords) /\ ~Has(StressedWords)
                /\ Has(PositiveWords) /\ Has({"excited"}))
        /\ sentiment.mood = "happy" <=>
               (/\ ~Has(FrustratedWords) /\ ~Has(SadWords) /\ ~Has(StressedWords)
                /\ Has(PositiveWords) /\ ~Has({"excited"}))
        /\ sentiment.mood = "neutral" <=>
               (/\ ~Has(FrustratedWords) /\ ~Has(SadWords) /\ ~Has(StressedWords)
                /\ ~Has(PositiveWords))

\* a text with a stress word and a happy word is classified STRESSED
C29_Witness ==
    /\ sentiment.made
    /\ sentiment.text = "stressed happy"
    /\ sentiment.mood = "stressed"

-----------------------------------------------------------------------------
(* Properties of the prioritization scenario, checked under Spec *)

\* C30: for the utterance "What should I focus on today?" exactly
\* Prioritization is selected, and the Response is tagged prioritization with
\* an Action list that is empty or holds calendar and reminder Actions only,
\* whatever text the completion backend returns.
C30_FocusScenario ==
    (pc = "done" /\ request.input = FocusUtterance) =>
        /\ selected = <<PRIORITIZATION>>
        /\ response.kind = "response"
        /\ response.agent_type = PRIORITIZATION
        /\ \A i \in 1..Len(response.actions) :
               response.actions[i].type \in {"calendar", "reminder"}

-----------------------------------------------------------------------------
(* Properties of the Actions, checked under Spec *)

\* every AgentResponse a responder has returned, was passed to the synthesis
\* or was returned by process_request
ResponsesInHand ==
    {r \in {response} \cup {agentResp[a] : a \in Agents} : r.kind = "response"}
        \cup (IF synthesis.made
              THEN {synthesis.responses[i] : i \in 1..Len(synthesis.responses)}
              ELSE {})

\* C31: every Action of every Response of a responder or of process_request
\* has status pending and a kind among email, calendar, reminder, research
\* and contact; no step makes an Action executing, completed or failed.
C31_ActionsPending ==
    \A r \in ResponsesInHand :
        \A i \in 1..Len(r.actions) :
            /\ r.actions[i].status = "pending"
            /\ r.actions[i].type \in {"email", "calendar", "reminder", "research", "contact"}

\* a synthesized Response with Actions of three kinds, a contact among them
C31_Witness ==
    /\ pc = "done"
    /\ response.kind = "response"
    /\ response.agent_type = ORCHESTRATOR
    /\ {response.actions[i].type : i \in 1..Len(response.actions)}
           = {"contact", "reminder", "research"}

-----------------------------------------------------------------------------
(* Properties of the backend invocations, checked under SpecLLMRequest *)

\* the message sequence the backends are to be sent
FullMessages ==
    IF lastCall.system_prompt.kind = "text"
    THEN <<Message("system", lastCall.system_prompt.text)>> \o lastCall.messages
    ELSE lastCall.messages

\* request names the field f and gives it the value v
Carries(req, f, v) == f \in DOMAIN req /\ req[f] = v

\* C32: every invocation of a backend by chat_completion carries the
\* caller's max_tokens and temperature and the full message sequence, the
\* system prompt first as a system-role message when one is given.
C32_InvocationCarriesArguments ==
    lastCall.made =>
        \A i \in 1..Len(lastCall.requests) :
            /\ Carries(lastCall.requests[i], "max_tokens", lastCall.max_tokens)
            /\ Carries(lastCall.requests[i], "temperature", lastCall.temperature)
            /\ Carries(lastCall.requests[i], "messages", FullMessages)

-----------------------------------------------------------------------------
(* Properties of cosine_similarity, checked under SpecCosine *)

\* C33: cosine_similarity is symmetric: for two vectors of one dimensionality
\* the call on (u, v) and the call on (v, u) return the same value.
C33_CosineSymmetric ==
    (similarity.made /\ Len(similarity.vec1) = Len(similarity.vec2)) =>
        /\ ~similarity.raised
        /\ ~similarity.swapped.raised
        /\ similarity.value = similarity.swapped.value

\* two distinct, non-orthogonal vectors of different norm have been compared
C33_Witness ==
    /\ similarity.made
    /\ similarity.vec1 = <<1, 0>>
    /\ similarity.vec2 = <<3, 4>>
    /\ similarity.value = 600
    /\ similarity.swapped.value = 600

\* a vector is all-zero
ZeroNorm(vec) == vec # <<>> /\ Norm(vec) = 0

\* C34: cosine_similarity returns 0 whenever either vector is empty or has
\* zero norm, and never raises on the way (no division by zero, no other
\* error).
C34_ZeroForEmptyOrZeroNorm ==
    (/\ similarity.made
     /\ \/ similarity.vec1 = <<>> \/ similarity.vec2 = <<>>
        \/ ZeroNorm(similarity.vec1) \/ ZeroNorm(similarity.vec2)) =>
        (~similarity.raised /\ similarity.value = 0)

-----------------------------------------------------------------------------
(* User isolation of the knowledge service, checked under SpecRAGUsers *)

\* some stored node of the user has the content
AddedBy(user_id, content) ==
    \E i \in 1..Len(store) :
        store[i].user_id = user_id /\ store[i].content = content

\* C35: whatever adds and context queries several users have made, the
\* context returned for a user is built from that user's nodes only: every
\* ranked candidate is a node of the user, and a content that appears in the
\* context is the content of a node added under the user's id.
C35_ContextOfOwnNodesOnly ==
    lastContext.made =>
        /\ \A i \in 1..Len(lastContext.similar_items) :
               lastContext.similar_items[i].item.user_id = lastContext.user_id
        /\ \A i \in 1..Len(lastContext.results) :
               AddedBy(lastContext.user_id, lastContext.results[i].content)
        /\ \A text \in Texts :
               Contains(lastContext.context, "- " \o text) =>
                   AddedBy(lastContext.user_id, text)

\* both users hold nodes, "cdefg" is held by u2 only, and u1 received a
\* context that lists u1's "ab"
C35_Witness ==
    /\ lastContext.made
    /\ lastContext.user_id = "u1"
    /\ AddedBy("u2", "cdefg") /\ AddedBy("u2", "ab")
    /\ ~AddedBy("u1", "cdefg")
    /\ lastContext.context = Banner \o "- ab"

-----------------------------------------------------------------------------
(* The session history of /chat, checked under SpecChat *)

\* the stored history holds the turn's user message followed at once by its reply
Recorded(t) ==
    \E i \in 1..(Len(session.messages) - 1) :
        /\ session.messages[i] = Message("user", TurnMessage[t])
        /\ session.messages[i + 1] = Message("assistant", turns[t].reply)

\* C36: after any set of /chat turns of one session has completed, turns
\* handled concurrently included, the stored session history holds the user
\* message and the assistant reply of every completed turn, in that order.
C36_NoCompletedTurnLost ==
    \A t \in Turns : turns[t].pc = "done" => Recorded(t)

-----------------------------------------------------------------------------
(* The selection and the branches of process_request, checked under Spec *)

\* position of an agent in the order Logistics, Affect, Prioritization
OrderOf(a) == IF a = EXECUTIVE THEN 1 ELSE IF a = EMOTIONAL THEN 2 ELSE 3

\* _select_agents has returned for the request in hand
SelectionMade == pc \in {"selected", "single", "gather", "synthesize", "direct", "done"}

\* C37: the selection returned by _select_agents is non-empty and lists
\* agents of the three, each at most once, in the order Logistics, Affect,
\* Prioritization; so the direct completion is entered, and its call made,
\* only with more than one agent selected, every task of the gather
\* finished and no valid response among the results.
C37_SelectionNonEmptyOrdered ==
    /\ SelectionMade =>
          /\ Len(selected) >= 1
          /\ \A i \in 1..Len(selected) : selected[i] \in Agents
          /\ \A i \in 1..Len(selected), j \in 1..Len(selected) :
                 i < j => OrderOf(selected[i]) < OrderOf(selected[j])
    /\ (pc = "direct" \/ llmCalls["direct"] > 0) =>
          /\ Len(selected) > 1
          /\ AllTasksFinished
          /\ ValidResponses(GatherResults(selected, agentResp)) = <<>>

\* the direct completion has answered a request for which two agents were
\* selected and both tasks raised
C37_Witness ==
    /\ pc = "done"
    /\ llmCalls["direct"] = 1
    /\ Len(selected) = 2
    /\ response.agent_type = ORCHESTRATOR

-----------------------------------------------------------------------------
(* The messages built from the conversation history, checked under SpecMessages *)

\* the turns of the observed history whose role is user or assistant
PriorTurns ==
    SelectSeq(lastMessages.history, LAMBDA m : m.role \in {"user", "assistant"})

\* C38: the messages an agent or the direct path passes to the completion
\* client are the prior turns of role user or assistant, in their order and
\* without the system-role turns, followed by exactly one new user message,
\* which carries the request's input.
C38_HistoryThenOneUserMessage ==
    lastMessages.made =>
        LET messages == lastMessages.messages
            n == Len(PriorTurns)
        IN  /\ Len(messages) = n + 1
            /\ \A i \in 1..n :
                   /\ messages[i].role = PriorTurns[i].role
                   /\ messages[i].content = PriorTurns[i].content
                   /\ DOMAIN messages[i] = {"role", "content"}
            /\ messages[n + 1].role = "user"
            /\ \E k \in 0..Len(messages[n + 1].content) :
                   SubSeq(messages[n + 1].content, k + 1, Len(messages[n + 1].content))
                       = lastMessages.input

\* the direct path has built its messages from a history with a system turn
\* between a user turn and an assistant turn
C38_Witness ==
    /\ lastMessages.made
    /\ lastMessages.sender = ORCHESTRATOR
    /\ Len(lastMessages.history) = 3
    /\ lastMessages.history[1].role = "user"
    /\ lastMessages.history[2].role = "system"
    /\ lastMessages.history[3].role = "assistant"
    /\ Len(lastMessages.messages) = 3

-----------------------------------------------------------------------------
(* The Actions of ExecutiveAgent.process, checked under SpecExecutive *)

Range(f) == {f[x] : x \in DOMAIN f}

\* position of an Action kind in the order email, calendar, reminder
KindOrder(k) == IF k = "email" THEN 1 ELSE IF k = "calendar" THEN 2 ELSE 3

\* the lowercased text of the observed response mentions one of the phrases
Mentions(ks) == ContainsAny(Lower(extracted.response.content), ks)

\* the kinds of the observed response's Actions, in list order
ActionKinds ==
    [i \in 1..Len(extracted.response.actions) |-> extracted.response.actions[i].type]

\* C39: the Action list ExecutiveAgent.process returns holds an email Action
\* iff the lowercased generated text contains 'send email' or 'draft', a
\* calendar Action iff it contains 'schedule' or 'calendar', a reminder
\* Action iff it contains 'remind'; at most one of each kind, in the order
\* email, calendar, reminder.
C39_ActionsByKeyword ==
    extracted.made =>
        /\ ("email" \in Range(ActionKinds)) <=> Mentions({"send email", "draft"})
        /\ ("calendar" \in Range(ActionKinds)) <=> Mentions({"schedule", "calendar"})
        /\ ("reminder" \in Range(ActionKinds)) <=> Mentions({"remind"})
        /\ Range(ActionKinds) \subseteq {"email", "calendar", "reminder"}
        /\ \A i \in 1..Len(ActionKinds), j \in 1..Len(ActionKinds) :
               i < j => KindOrder(ActionKinds[i]) < KindOrder(ActionKinds[j])

\* a text in capitals that asks for a draft and names the calendar gave an
\* email Action followed by a calendar Action
C39_Witness ==
    /\ extracted.made
    /\ extracted.out = Text("DRAFT Calendar")
    /\ ActionKinds = <<"email", "calendar">>

-----------------------------------------------------------------------------
(* The message of a failed chat_completion, checked under SpecLLM *)

\* C40: a chat_completion that raises reports 'No LLM providers configured'
\* only when no backend is configured; when at least one configured backend
\* was tried and all of them failed it reports 'All LLM providers failed',
\* whichever backends are configured.
C40_FailureMessageByConfiguration ==
    (lastCall.made /\ lastCall.trace.result.kind = "exc") =>
        /\ lastCall.trace.result.msg = NoProvidersMsg => configured = {}
        /\ lastCall.trace.invoked # <<>> => lastCall.trace.result.msg = AllFailedMsg

====
